---------------------------- MODULE Spec2Model ----------------------------
(***************************************************************************)
(* A model of heimdall: the glob engine (tokenizer, parser, arena), the    *)
(* ignore stack, the inode-keyed store, the directed graph and the tree    *)
(* builder (Tree::new), translated from the Rust sources.                  *)
(*                                                                         *)
(* Conventions.  A Rust Option<T> is a sequence of length at most one:     *)
(* <<>> is None and <<v>> is Some(v).  A Result<T> is a record with a      *)
(* boolean field ok and either val or err.  A string (str, CString, OsStr) *)
(* is a sequence of one-character strings.  Slab keys, node indices and    *)
(* tokenizer indices are 0-based as in the code; a key k is stored at      *)
(* position k + 1 of the sequence that models the slab or vector.          *)
(***************************************************************************)
EXTENDS Integers, Sequences, FiniteSets, TLC

None == <<>>
Some(v) == <<v>>
Ok(v) == [ok |-> TRUE, val |-> v]
Err(e) == [ok |-> FALSE, err |-> e]

SetMin(S) == CHOOSE m \in S : \A n \in S : m <= n

\* let val = ...; body: the value is bound once and used by the body.
With(val, Body(_)) == Body(val)

(***************************************************************************)
(* Characters.  CodePoint gives the scalar value of the characters the     *)
(* model uses (character classes compare scalar values).  BadByte stands   *)
(* for a byte that is not valid UTF-8 in a file name.                      *)
(***************************************************************************)
BadByte == "0xFF"

CodePoint(c) ==
    CASE c = " " -> 32 [] c = "!" -> 33 [] c = "#" -> 35 [] c = "*" -> 42
      [] c = "-" -> 45 [] c = "." -> 46 [] c = "/" -> 47 [] c = "?" -> 63
      [] c = "[" -> 91 [] c = "]" -> 93
      [] c = "a" -> 97 [] c = "b" -> 98 [] c = "c" -> 99 [] c = "d" -> 100
      [] c = "e" -> 101 [] c = "g" -> 103 [] c = "h" -> 104 [] c = "i" -> 105
      [] c = "l" -> 108 [] c = "n" -> 110 [] c = "o" -> 111 [] c = "r" -> 114
      [] c = "t" -> 116 [] c = "x" -> 120 [] c = "y" -> 121
      [] OTHER -> 65533

(***************************************************************************)
(* glob/tokenizer.rs                                                       *)
(***************************************************************************)
test_char(self, target) ==
    CASE target = "!" /\ "NEGATE" \in self -> Some("Negate")
      [] target = "/" /\ "SEPARATOR" \in self -> Some("Separator")
      [] target = "*" /\ "STAR" \in self -> Some("Star")
      [] target = "?" /\ "QUESTION" \in self -> Some("Question")
      [] target = "[" /\ "SQUARE_START" \in self -> Some("SquareStart")
      [] target = "]" /\ "SQUARE_END" \in self -> Some("SquareEnd")
      [] target = "-" /\ "DASH" \in self -> Some("Dash")
      [] OTHER -> None

Tokenizer_new(inner) == [inner |-> inner, index |-> 0, last_index |-> 0]

remaining(self) == SubSeq(self.inner, self.index + 1, Len(self.inner))

flush(self) == [self EXCEPT !.last_index = self.index]

reset(self) == [self EXCEPT !.index = self.last_index]

\* Both return the tokenizer after the call and the call's output.
next_token(self, accepted) ==
    LET rem == remaining(self) IN
    IF accepted = {}
    THEN [tokens |-> self,
          output |-> IF rem = <<>> THEN Some("Ending") ELSE None]
    ELSE LET output == IF rem = <<>> THEN None ELSE test_char(accepted, rem[1]) IN
         [tokens |-> IF output # None THEN [self EXCEPT !.index = @ + 1] ELSE self,
          output |-> output]

\* str::find with a predicate: the 0-based offset of the first match.
find_follow(text, follow) ==
    LET hits == {i \in 1..Len(text) : test_char(follow, text[i]) # None} IN
    IF hits = {} THEN None ELSE Some(SetMin(hits) - 1)

read_literal(self, follow) ==
    LET rem == remaining(self)
        index == find_follow(rem, follow)
    IN  IF index # None
        THEN LET start == SubSeq(rem, 1, index[1]) IN
             IF start = <<>>
             THEN [tokens |-> self, output |-> None]
             ELSE [tokens |-> [self EXCEPT !.index = @ + index[1]],
                   output |-> Some(start)]
        ELSE [tokens |-> [self EXCEPT !.index = Len(self.inner)],
              output |-> IF rem = <<>> THEN None ELSE Some(rem)]

(***************************************************************************)
(* glob/parser.rs.  A Hir is a sequence of atoms (Hir::concat); a Regex is *)
(* the anchored expression ^hir$, kept as its hir.                         *)
(***************************************************************************)
HirLiteral(c) == [kind |-> "Literal", c |-> c]

\* hir::ClassUnicodeRange::new orders its two ends.
ClassUnicodeRange(a, b) ==
    IF CodePoint(a) <= CodePoint(b) THEN <<CodePoint(a), CodePoint(b)>>
                                    ELSE <<CodePoint(b), CodePoint(a)>>

HirClass(ranges, negated) == [kind |-> "Class", ranges |-> ranges, negated |-> negated]

\* A question mark that matches every character, the separator too.
question_matches_separator == HirClass({}, TRUE)

question == HirClass({ClassUnicodeRange("/", "/")}, TRUE)

star == [kind |-> "Repetition", hir |-> question]

RECURSIVE charset_letters(_, _, _)
charset_letters(text, i, class) ==
    IF i > Len(text) THEN Ok(class)
    ELSE IF i + 1 <= Len(text) /\ text[i + 1] = "-"
         THEN IF i + 2 <= Len(text)
              THEN charset_letters(text, i + 3,
                                   class \cup {ClassUnicodeRange(text[i], text[i + 2])})
              ELSE Err("InvalidGlobParse")
         ELSE charset_letters(text, i + 1, class \cup {ClassUnicodeRange(text[i], text[i])})

parse_charset(tokens) ==
    With(read_literal(tokens, {"SQUARE_END"}), LAMBDA text :
        IF text.output = None
        THEN [tokens |-> text.tokens, result |-> Err("InvalidGlobParse")]
        ELSE With(charset_letters(text.output[1], 1, {}), LAMBDA class :
                [tokens |-> text.tokens,
                 result |-> IF class.ok THEN Ok(HirClass(class.val, FALSE)) ELSE class]))

accept_set == {"STAR", "QUESTION", "SQUARE_START"}
break_set == accept_set \cup {"SEPARATOR"}

Literals(text) == [i \in 1..Len(text) |-> HirLiteral(text[i])]

\* The loop of parse_pattern: the tokenizer after it and Ok(constructor) or Err.
RECURSIVE parse_pattern_loop(_, _)
parse_pattern_loop(tokens, constructor) ==
    With(next_token(tokens, accept_set), LAMBDA t1 :
        IF t1.output = Some("Star")
        THEN With(next_token(t1.tokens, {"STAR"}), LAMBDA t2 :
                IF t2.output # None
                THEN [tokens |-> reset(t2.tokens), result |-> Ok(constructor)]
                ELSE parse_pattern_loop(flush(t2.tokens), Append(constructor, star)))
        ELSE IF t1.output = Some("Question")
        THEN parse_pattern_loop(flush(t1.tokens), Append(constructor, question))
        ELSE IF t1.output = Some("SquareStart")
        THEN With(parse_charset(t1.tokens), LAMBDA class :
                IF class.result.ok
                THEN parse_pattern_loop(flush(class.tokens),
                                        Append(constructor, class.result.val))
                ELSE class)
        ELSE With(read_literal(t1.tokens, break_set), LAMBDA literal :
                IF literal.output # None
                THEN parse_pattern_loop(flush(literal.tokens),
                                        constructor \o Literals(literal.output[1]))
                ELSE [tokens |-> literal.tokens, result |-> Ok(constructor)]))

\* Ok(None), Ok(Some(regex)) or Err.
parse_pattern(tokens) ==
    With(parse_pattern_loop(tokens, <<>>), LAMBDA r :
        IF ~r.result.ok THEN r
        ELSE [tokens |-> r.tokens,
              result |-> IF r.result.val = <<>> THEN Ok(None) ELSE Ok(Some(r.result.val))])

\* A printer that escapes nothing.
is_meta_character_never(c) == FALSE

\* regex_syntax::is_meta_character, over the characters of the model.
is_meta_character(c) == c \in {".", "*", "?", "[", "]", "-", "#"}

\* The Hir printer on a concatenation of literals: a backslash goes in front
\* of every meta character.
RECURSIVE print_literals(_, _)
print_literals(hir, i) ==
    IF i > Len(hir) THEN <<>>
    ELSE (IF is_meta_character(hir[i].c) THEN <<"\\">> ELSE <<>>)
             \o <<hir[i].c>> \o print_literals(hir, i + 1)

\* Regex::as_str of the regex built from format!("^{}$", total), total a
\* concatenation of literals.
as_str(regex) == <<"^">> \o print_literals(regex, 1) \o <<"$">>

SegPattern(regex) == [kind |-> "Pattern", regex |-> regex]
SegAnything == [kind |-> "Anything"]
SegSeparator == [kind |-> "Separator"]

parse_segment(tokens) ==
    With(parse_pattern(tokens), LAMBDA p :
        IF ~p.result.ok THEN p
        ELSE IF p.result.val # None
        THEN [tokens |-> p.tokens, result |-> Ok(Some(SegPattern(p.result.val[1])))]
        ELSE With(next_token(p.tokens, {"STAR", "SEPARATOR"}), LAMBDA t1 :
                IF t1.output = Some("Star")
                THEN With(next_token(t1.tokens, {"STAR"}), LAMBDA t2 :
                        IF t2.output = None
                        THEN [tokens |-> t2.tokens, result |-> Err("panic: unwrap on None")]
                        ELSE [tokens |-> flush(t2.tokens), result |-> Ok(Some(SegAnything))])
                ELSE IF t1.output = Some("Separator")
                THEN [tokens |-> flush(t1.tokens), result |-> Ok(Some(SegSeparator))]
                ELSE [tokens |-> t1.tokens, result |-> Ok(None)]))

\* The loop of parse: the tokenizer after it and Ok(segments) or Err.
RECURSIVE parse_segments(_, _)
parse_segments(tokens, segments) ==
    With(parse_segment(tokens), LAMBDA s :
        IF ~s.result.ok THEN s
        ELSE IF s.result.val = None THEN [tokens |-> s.tokens, result |-> Ok(segments)]
        ELSE parse_segments(s.tokens, Append(segments, s.result.val[1])))

parse(input) ==
    With(next_token(Tokenizer_new(input), {"NEGATE"}), LAMBDA t0 :
        With(parse_segments(t0.tokens, <<>>), LAMBDA s :
            IF ~s.result.ok THEN s.result
            ELSE IF next_token(s.tokens, {}).output = Some("Ending")
            THEN Ok([starts_negated |-> t0.output # None, segments |-> s.result.val])
            ELSE Err("InvalidGlobParse")))

(***************************************************************************)
(* Regex::is_match for the anchored expression ^hir$.                      *)
(***************************************************************************)
class_matches(class, c) ==
    LET inside == \E r \in class.ranges : r[1] <= CodePoint(c) /\ CodePoint(c) <= r[2] IN
    IF class.negated THEN ~inside ELSE inside

RECURSIVE match_from(_, _, _, _)
match_from(hir, i, text, j) ==
    IF i > Len(hir) THEN j > Len(text)
    ELSE CASE hir[i].kind = "Literal" ->
                 j <= Len(text) /\ text[j] = hir[i].c /\ match_from(hir, i + 1, text, j + 1)
           [] hir[i].kind = "Class" ->
                 j <= Len(text) /\ class_matches(hir[i], text[j])
                                /\ match_from(hir, i + 1, text, j + 1)
           [] hir[i].kind = "Repetition" ->
                 \/ match_from(hir, i + 1, text, j)
                 \/ j <= Len(text) /\ class_matches(hir[i].hir, text[j])
                                   /\ match_from(hir, i, text, j + 1)

is_match(regex, text) == match_from(regex, 1, text, 1)

\* OsStr::to_str: None for a name that is not valid UTF-8.
to_str(name) ==
    IF \E i \in 1..Len(name) : name[i] = BadByte THEN None ELSE Some(name)

(***************************************************************************)
(* glob.rs: the arena.  storage is the Slab<Glob>, children the HashMap.   *)
(***************************************************************************)
GlobArena_new == [storage |-> <<>>, children |-> <<>>]

\* The batching adaptor, collected: Ok(the (segment, trailing_slash) pairs) or Err.
RECURSIVE batching(_)
batching(segments) ==
    IF segments = <<>> THEN Ok(<<>>)
    ELSE IF segments[1].kind = "Separator" THEN Err("unexpected /")
    ELSE With(IF segments[1].kind = "Pattern" THEN Some(segments[1].regex) ELSE None,
              LAMBDA segment :
                IF Len(segments) = 1
                THEN Ok(<<[segment |-> segment, trailing |-> FALSE]>>)
                ELSE IF segments[2].kind = "Separator"
                THEN With(batching(SubSeq(segments, 3, Len(segments))), LAMBDA rest :
                        IF rest.ok
                        THEN Ok(<<[segment |-> segment, trailing |-> TRUE]>> \o rest.val)
                        ELSE rest)
                ELSE Err("/ needed between sections"))

\* The insertion loop: the arena after inserting pairs[i..], latest_key as Option.
RECURSIVE insert_segments(_, _, _, _, _)
insert_segments(arena, pairs, i, latest_key, flags) ==
    IF i > Len(pairs) THEN arena
    ELSE insert_segments(
            [storage |-> Append(arena.storage,
                                [segment |-> pairs[i].segment,
                                 negated |-> flags.starts_negated,
                                 trailing_slash |-> pairs[i].trailing,
                                 relative |-> ~flags.fixed_path]),
             children |-> IF latest_key # None
                          THEN (latest_key[1] :> Len(arena.storage)) @@ arena.children
                          ELSE arena.children],
            pairs, i + 1, Some(Len(arena.storage)), flags)

starts_with_separator(segments) == segments # <<>> /\ segments[1].kind = "Separator"

\* fixed_path decided by the leading separator alone.
fixed_path_by_leading_separator(segments) == starts_with_separator(segments)

fixed_path(segments) == IF starts_with_separator(segments) THEN TRUE ELSE Len(segments) > 2

\* compile_glob that inserts the leading segment before it has collected the
\* rest of the pattern.
compile_glob_inserts_while_batching(self, glob) ==
    With(parse(glob), LAMBDA ast :
        IF ~ast.ok THEN [arena |-> self, result |-> ast]
        ELSE With(IF starts_with_separator(ast.val.segments)
                  THEN Tail(ast.val.segments) ELSE ast.val.segments,
                  LAMBDA segments :
                    With(batching(segments), LAMBDA pairs :
                        IF ~pairs.ok
                        THEN [arena |-> IF segments[1].kind = "Separator" THEN self
                                        ELSE insert_segments(self,
                                                <<[segment |-> IF segments[1].kind = "Pattern"
                                                               THEN Some(segments[1].regex)
                                                               ELSE None,
                                                   trailing |-> TRUE]>>, 1, None,
                                                [starts_negated |-> ast.val.starts_negated,
                                                 fixed_path |-> fixed_path(ast.val.segments)]),
                              result |-> pairs]
                        ELSE IF pairs.val = <<>>
                        THEN [arena |-> self, result |-> Err("no glob segments")]
                        ELSE [arena |-> insert_segments(self, pairs.val, 1, None,
                                            [starts_negated |-> ast.val.starts_negated,
                                             fixed_path |-> fixed_path(ast.val.segments)]),
                              result |-> Ok(Len(self.storage))])))

\* compile_glob that leaves a separator at the end of the pattern out of the
\* batching, so that the terminal pair never has a trailing slash.
compile_glob_drops_last_separator(self, glob) ==
    With(parse(glob), LAMBDA ast :
        IF ~ast.ok THEN [arena |-> self, result |-> ast]
        ELSE With(batching(
                    With(IF starts_with_separator(ast.val.segments)
                         THEN Tail(ast.val.segments) ELSE ast.val.segments,
                         LAMBDA segments :
                            IF segments # <<>> /\ segments[Len(segments)].kind = "Separator"
                            THEN SubSeq(segments, 1, Len(segments) - 1) ELSE segments)),
                  LAMBDA pairs :
                    IF ~pairs.ok THEN [arena |-> self, result |-> pairs]
                    ELSE IF pairs.val = <<>>
                    THEN [arena |-> self, result |-> Err("no glob segments")]
                    ELSE [arena |-> insert_segments(self, pairs.val, 1, None,
                                        [starts_negated |-> ast.val.starts_negated,
                                         fixed_path |-> fixed_path(ast.val.segments)]),
                          result |-> Ok(Len(self.storage))]))

\* Returns the arena after the call and Ok(GlobKey) or Err.
compile_glob(self, glob) ==
    With(parse(glob), LAMBDA ast :
        IF ~ast.ok THEN [arena |-> self, result |-> ast]
        ELSE With(batching(IF starts_with_separator(ast.val.segments)
                           THEN Tail(ast.val.segments) ELSE ast.val.segments),
                  LAMBDA pairs :
                    IF ~pairs.ok THEN [arena |-> self, result |-> pairs]
                    ELSE IF pairs.val = <<>>
                    THEN [arena |-> self, result |-> Err("no glob segments")]
                    ELSE [arena |-> insert_segments(self, pairs.val, 1, None,
                                        [starts_negated |-> ast.val.starts_negated,
                                         fixed_path |-> fixed_path(ast.val.segments)]),
                          result |-> Ok(Len(self.storage))]))

segment_matches(glob, name) ==
    IF glob.segment # None THEN is_match(glob.segment[1], name) ELSE TRUE

\* match_file that answers at every segment, with or without successor.
match_file_at_every_segment(self, key, name, is_dir) ==
    With(to_str(name), LAMBDA str :
        IF str = None THEN None
        ELSE IF segment_matches(self.storage[key + 1], str[1])
             THEN Some(~self.storage[key + 1].negated)
             ELSE None)

match_file(self, key, name, is_dir) ==
    IF key \in DOMAIN self.children THEN None
    ELSE With(to_str(name), LAMBDA str :
            IF str = None THEN None
            ELSE IF segment_matches(self.storage[key + 1], str[1])
                 THEN Some(~self.storage[key + 1].negated)
                 ELSE None)

\* A match_dir in which every segment stays active in the child.
match_dir_always_stays(self, key, name) ==
    With(to_str(name), LAMBDA str :
        IF str = None THEN None
        ELSE With(IF segment_matches(self.storage[key + 1], str[1])
                     /\ key \in DOMAIN self.children
                  THEN Some(self.children[key]) ELSE None,
                  LAMBDA child_match : Some(child_match \o Some(key))))

\* Some(sequence of keys) for Some(iterator), in iteration order.
match_dir(self, key, name) ==
    With(to_str(name), LAMBDA str :
        IF str = None THEN None
        ELSE With(IF segment_matches(self.storage[key + 1], str[1])
                     /\ key \in DOMAIN self.children
                  THEN Some(self.children[key]) ELSE None,
                  LAMBDA child_match :
                    With(IF self.storage[key + 1].relative
                            \/ self.storage[key + 1].segment = None
                         THEN Some(key) ELSE None,
                         LAMBDA loop_match :
                            IF child_match = None /\ loop_match = None THEN None
                            ELSE Some(child_match \o loop_match))))

(***************************************************************************)
(* graph.rs: Graph<W>.  weights is the Slab<W>, nodes the Vec<Node>.       *)
(***************************************************************************)
Graph_new == [weights |-> <<>>, nodes |-> <<>>]

Node_new == [incoming |-> <<>>, outgoing |-> <<>>]

extend_to(self, n) ==
    [self EXCEPT !.nodes =
        @ \o [i \in 1..(IF 1 + n > Len(@) THEN 1 + n - Len(@) ELSE 0) |-> Node_new]]

\* add_edge that records the edge at its source only.
add_edge_one_way(self, from, to, weight) ==
    LET g == extend_to(self, IF from > to THEN from ELSE to) IN
    [weights |-> Append(g.weights, weight),
     nodes |-> [g.nodes EXCEPT ![from + 1].outgoing =
                    Append(@, [weight |-> Len(g.weights), connects_to |-> to])]]

add_edge(self, from, to, weight) ==
    LET g == extend_to(self, IF from > to THEN from ELSE to)
        w == Len(g.weights)
        out == [g.nodes EXCEPT ![from + 1].outgoing =
                    Append(@, [weight |-> w, connects_to |-> to])]
    IN  [weights |-> Append(g.weights, weight),
         nodes |-> [out EXCEPT ![to + 1].incoming =
                        Append(@, [weight |-> w, connects_to |-> from])]]

Edges(self, inner) ==
    [i \in 1..Len(inner) |-> [weight |-> self.weights[inner[i].weight + 1],
                              connects_to |-> inner[i].connects_to]]

outgoing(self, node) ==
    IF node < Len(self.nodes) THEN Edges(self, self.nodes[node + 1].outgoing) ELSE <<>>

incoming(self, node) ==
    IF node < Len(self.nodes) THEN Edges(self, self.nodes[node + 1].incoming) ELSE <<>>

\* Iterator::find: the first element of edges that satisfies the predicate.
first_edge(edges, hits) ==
    IF hits = {} THEN None ELSE Some(edges[SetMin(hits)])

(***************************************************************************)
(* tree/store.rs: TreeStore.  The two RawTables hold the keys of the       *)
(* entries indexed under them; a lookup probes the table with an equality  *)
(* closure, and an equal element has an equal hash.                        *)
(***************************************************************************)
TreeEntry_new(fd, inode) == [fd |-> fd, inode |-> inode]

TreeStore_new == [storage |-> <<>>, fd_index |-> {}, inode_index |-> {}]

\* RawTable::find: hits are the keys of the table that the closure accepts.
table_find(hits) ==
    IF hits = {} THEN None ELSE Some(CHOOSE index \in hits : TRUE)

\* The store after the call, the key returned, and whether unreachable!() ran.
TreeStore_insert(self, entry) ==
    LET fd_bucket == table_find({index \in self.fd_index : self.storage[index + 1] = entry})
        inode_bucket ==
            table_find({index \in self.inode_index : self.storage[index + 1] = entry})
    IN  IF fd_bucket # None /\ inode_bucket # None /\ fd_bucket = inode_bucket
        THEN [store |-> self, key |-> fd_bucket[1], panic |-> FALSE]
        ELSE IF fd_bucket = None /\ inode_bucket = None
        THEN LET key == Len(self.storage) IN
             [store |-> [storage |-> Append(self.storage, entry),
                         fd_index |-> self.fd_index \cup {key},
                         inode_index |-> self.inode_index \cup {key}],
              key |-> key, panic |-> FALSE]
        ELSE [store |-> self, key |-> 0, panic |-> TRUE]

key_to_entry(self, key) ==
    IF key < Len(self.storage) THEN Some(self.storage[key + 1]) ELSE None

fd_to_key(self, fd) ==
    table_find({index \in self.fd_index : self.storage[index + 1].fd = fd})

\* A lookup that never finds the inode.
inode_to_key_never_found(self, inode) == None

inode_to_key(self, inode) ==
    table_find({index \in self.inode_index : self.storage[index + 1].inode = inode})

(***************************************************************************)
(* tree/ignore.rs: Ignore.                                                 *)
(***************************************************************************)
GITIGNORE == <<".", "g", "i", "t", "i", "g", "n", "o", "r", "e">>
DOT == <<".">>
DOTDOT == <<".", ".">>

Ignore_new == [arena |-> GlobArena_new, key_to_globs |-> <<>>]

\* key_to_globs.get(&key).into_iter().flat_map(|globs| globs.iter())
globs_at(self, key) ==
    IF key \in DOMAIN self.key_to_globs THEN self.key_to_globs[key] ELSE <<>>

\* key_to_globs.entry(key).or_insert_with(Vec::new).extend_from_slice(new_globs)
extend_globs(self, key, new_globs) ==
    [self EXCEPT !.key_to_globs = (key :> (globs_at(self, key) \o new_globs)) @@ @]

is_whitespace(c) == c = " "

RECURSIVE trim_end(_)
trim_end(line) ==
    IF line # <<>> /\ is_whitespace(line[Len(line)])
    THEN trim_end(SubSeq(line, 1, Len(line) - 1))
    ELSE line

starts_with(text, prefix) ==
    Len(text) >= Len(prefix) /\ SubSeq(text, 1, Len(prefix)) = prefix

\* The loop over read.lines(): the arena and new_globs after line i onwards, or
\* the error of a line that cannot be read (here: one that is not UTF-8).
RECURSIVE read_lines(_, _, _, _)
read_lines(arena, lines, i, new_globs) ==
    IF i > Len(lines) THEN Ok([arena |-> arena, new_globs |-> new_globs])
    ELSE LET line == lines[i] IN
         IF to_str(line) = None THEN Err("IoError: stream did not contain valid UTF-8")
         ELSE IF starts_with(line, <<"#">>) \/ trim_end(line) = <<>>
         THEN read_lines(arena, lines, i + 1, new_globs)
         ELSE With(compile_glob(arena, trim_end(line)), LAMBDA c :
                IF c.result.ok
                THEN read_lines(c.arena, lines, i + 1, Append(new_globs, c.result.val))
                ELSE read_lines(c.arena, lines, i + 1, new_globs))

\* A parse_gitignore that attaches nothing when a line fails to compile.
parse_gitignore_all_or_nothing(self, lines, at) ==
    With(read_lines(self.arena, lines, 1, <<>>), LAMBDA r :
        IF ~r.ok THEN r
        ELSE IF Len(r.val.new_globs)
                  < Cardinality({i \in 1..Len(lines) :
                        ~(starts_with(lines[i], <<"#">>) \/ trim_end(lines[i]) = <<>>)})
        THEN Ok(self)
        ELSE Ok(extend_globs([self EXCEPT !.arena = r.val.arena], at, r.val.new_globs)))

\* lines is what the descriptor reads.  Ok(the Ignore after the call) or Err.
parse_gitignore(self, lines, at) ==
    With(read_lines(self.arena, lines, 1, <<>>), LAMBDA r :
        IF ~r.ok THEN r
        ELSE Ok(extend_globs([self EXCEPT !.arena = r.val.arena], at, r.val.new_globs)))

\* A fold in which the first opinion stands: old.or(new) in every case.
fold_opinion_first_stands(old, new) == IF old # None THEN old ELSE new

fold_opinion(old, new) ==
    IF old = Some(TRUE) \/ new = Some(TRUE) THEN Some(TRUE)
    ELSE IF old # None THEN old ELSE new

RECURSIVE fold_opinions(_, _, _)
fold_opinions(opinions, i, acc) ==
    IF i > Len(opinions) THEN acc
    ELSE fold_opinions(opinions, i + 1, fold_opinion(acc, opinions[i]))

\* match_file(..).map(|x| !x)
opinion_of(self, glob, name, is_dir) ==
    With(match_file(self.arena, glob, name, is_dir), LAMBDA m :
        IF m = None THEN None ELSE Some(~m[1]))

opinions_of(self, globs, name, is_dir) ==
    [i \in 1..Len(globs) |-> opinion_of(self, globs[i], name, is_dir)]

\* should_open without the hidden-file rule: the patterns alone decide.
should_open_by_patterns_alone(self, parent, name, is_dir) ==
    With(fold_opinions(opinions_of(self, globs_at(self, parent), name, is_dir), 1, None),
         LAMBDA folded : IF folded = None THEN TRUE ELSE folded[1])

should_open(self, parent, name, is_dir) ==
    IF starts_with(name, DOT) /\ name # GITIGNORE THEN FALSE
    ELSE With(fold_opinions(opinions_of(self, globs_at(self, parent), name, is_dir), 1, None),
              LAMBDA folded : IF folded = None THEN TRUE ELSE folded[1])

RECURSIVE flatten(_)
flatten(seqs) == IF seqs = <<>> THEN <<>> ELSE seqs[1] \o flatten(Tail(seqs))

\* filter_map(match_dir).flatten() over the globs of one directory.
matched_dirs(self, globs, name) ==
    flatten([i \in 1..Len(globs) |->
                With(match_dir(self.arena, globs[i], name), LAMBDA m :
                    IF m = None THEN <<>> ELSE m[1])])

open_at(self, parent, name, child) ==
    extend_globs(self, child, matched_dirs(self, globs_at(self, parent), name))

(***************************************************************************)
(* The file system that Tree::new walks: the kind of each inode, the       *)
(* entries of each directory, the target of each symbolic link and the     *)
(* lines of each regular file.  It does not change during the build.       *)
(***************************************************************************)
VARIABLES
    fs,                  \* the file system under the root
    fds,                 \* the process's open descriptors: descriptor -> inode
    pc,                  \* where Tree::new is: root, walk, resolve, done, failed, panic
    root_entry,          \* Tree.root_entry
    storage,             \* Tree.storage
    structure,           \* Tree.structure
    ignores,             \* Tree.ignores
    unresolved_files,    \* Vec<UnresolvedFile>
    unresolved_symlinks, \* Vec<UnresolvedSymlink>
    rlimit,              \* RLIMIT_NOFILE of the process: rlim_cur and rlim_max
    error,               \* the Err that Tree::new returned, None while there is none
    pattern,             \* the pattern string handed to the glob engine
    ast,                 \* what parser::parse returned for it, None before the call
    arena,               \* the GlobArena that compiles it
    compiled             \* what compile_glob returned for it, None before the call

tree_vars == <<fs, fds, pc, root_entry, storage, structure, ignores,
               unresolved_files, unresolved_symlinks, rlimit, error>>

glob_vars == <<pattern, ast, arena, compiled>>

vars == <<tree_vars, glob_vars>>

(***************************************************************************)
(* fs.rs: File, over the file system fs.                                   *)
(***************************************************************************)
\* open(2) and dup(2) return the lowest descriptor that is not open.
lowest_free(open) == SetMin({n \in 0..(Cardinality(DOMAIN open) + 1) : n \notin DOMAIN open})

\* open(2), openat(2) and dup(2): the lowest free descriptor, or EMFILE when
\* that descriptor is not below the soft limit.
open_raw(open, limit) ==
    IF lowest_free(open) < limit.rlim_cur THEN Ok(lowest_free(open)) ELSE Err("EMFILE")

\* getrlimit, rlim_cur *= 2, setrlimit: EINVAL when rlim_cur would exceed rlim_max.
increase_ulimits(limit) ==
    IF 2 * limit.rlim_cur <= limit.rlim_max
    THEN Ok([limit EXCEPT !.rlim_cur = 2 * limit.rlim_cur])
    ELSE Err("EINVAL")

\* File::open: the descriptor or the error, and the limit the call leaves.
File_open(open, limit) ==
    IF open_raw(open, limit).ok THEN [result |-> open_raw(open, limit), rlimit |-> limit]
    ELSE With(increase_ulimits(limit), LAMBDA raised :
            IF ~raised.ok THEN [result |-> raised, rlimit |-> limit]
            ELSE [result |-> open_raw(open, raised.val), rlimit |-> raised.val])

\* File::open_at: on EMFILE it raises the limit and calls itself again.
RECURSIVE File_open_at(_, _)
File_open_at(open, limit) ==
    IF open_raw(open, limit).ok THEN [result |-> open_raw(open, limit), rlimit |-> limit]
    ELSE With(increase_ulimits(limit), LAMBDA raised :
            IF ~raised.ok THEN [result |-> raised, rlimit |-> limit]
            ELSE File_open_at(open, raised.val))

\* stat_at(fd, path) with AT_SYMLINK_NOFOLLOW: the entry's own kind and inode.
stat_at(fd, path) ==
    LET dir == fds[fd]
        inode == IF path = DOT THEN dir ELSE fs.dirents[dir][path]
    IN  [file_type |-> fs.kind[inode], inode |-> inode]

\* The names readdir may yield, ".." skipped and "." kept: any order.
Orders(S) ==
    {p \in [1..Cardinality(S) -> S] : \A i, j \in 1..Cardinality(S) : i # j => p[i] # p[j]}

scan(inode) == Orders(DOMAIN fs.dirents[inode] \cup {DOT})

\* The dup(2) that scan starts with, its descriptor closed again by closedir.
scan_dup(open, limit) == open_raw(open, limit)

\* The length of the buffer handed to readlinkat: Vec::with_capacity(1024).len().
ReadlinkBufLen == 0

\* readlinkat places at most bufsize bytes of the target and returns their
\* number; buf.truncate(length) never makes the vector longer than it is.
get_link_name(inode) ==
    LET target == fs.target[inode]
        length == IF Len(target) < ReadlinkBufLen THEN Len(target) ELSE ReadlinkBufLen
        kept == IF length < ReadlinkBufLen THEN length ELSE ReadlinkBufLen
    IN  SubSeq(target, 1, kept)

(***************************************************************************)
(* std::path::Path::components, used by Tree::follow_path.                 *)
(***************************************************************************)
RECURSIVE split_path(_, _, _)
split_path(path, i, current) ==
    IF i > Len(path) THEN (IF current = <<>> THEN <<>> ELSE <<current>>)
    ELSE IF path[i] = "/"
    THEN (IF current = <<>> THEN <<>> ELSE <<current>>) \o split_path(path, i + 1, <<>>)
    ELSE split_path(path, i + 1, Append(current, path[i]))

components(path) ==
    LET parts == split_path(path, 1, <<>>)
        named == [i \in 1..Len(parts) |->
                    IF parts[i] = DOT THEN [kind |-> "CurDir", name |-> DOT]
                    ELSE IF parts[i] = DOTDOT THEN [kind |-> "ParentDir", name |-> DOTDOT]
                    ELSE [kind |-> "Normal", name |-> parts[i]]]
        absolute == path # <<>> /\ path[1] = "/"
        IsKept(i) == named[i].kind # "CurDir" \/ (i = 1 /\ ~absolute)
        kept == {i \in 1..Len(named) : IsKept(i)}
        rank(i) == Cardinality({j \in kept : j <= i})
        normalized == [n \in 1..Cardinality(kept) |->
                         named[CHOOSE i \in kept : rank(i) = n]]
    IN  (IF absolute THEN <<[kind |-> "RootDir", name |-> <<"/">>]>> ELSE <<>>) \o normalized

(***************************************************************************)
(* tree.rs: Tree.                                                          *)
(***************************************************************************)
Child(name) == [kind |-> "Child", name |-> name]
SymLink == [kind |-> "SymLink"]

\* usize::max_value(), within the integers of the model.
usize_max_value == 2147483647

\* structure.incoming(key).find(|edge| edge.connects_to != key)
find_parent(graph, key) ==
    With(incoming(graph, key), LAMBDA edges :
        first_edge(edges, {e \in 1..Len(edges) : edges[e].connects_to # key}))

\* structure.outgoing(key).find(SymLink, or Child(name) with the component's name)
find_child(graph, key, component) ==
    With(outgoing(graph, key), LAMBDA edges :
        first_edge(edges, {e \in 1..Len(edges) :
                             \/ edges[e].weight.kind = "SymLink"
                             \/ /\ edges[e].weight.kind = "Child"
                                /\ edges[e].weight.name = component}))

RECURSIVE follow_components(_, _, _, _)
follow_components(graph, key, segments, i) ==
    IF i > Len(segments) THEN Some(key)
    ELSE CASE segments[i].kind = "CurDir" -> follow_components(graph, key, segments, i + 1)
           [] segments[i].kind = "ParentDir" ->
                With(find_parent(graph, key), LAMBDA parent :
                    IF parent # None
                    THEN follow_components(graph, parent[1].connects_to, segments, i + 1)
                    ELSE None)
           [] segments[i].kind = "Normal" ->
                With(find_child(graph, key, segments[i].name), LAMBDA child :
                    IF child # None
                    THEN follow_components(graph, child[1].connects_to, segments, i + 1)
                    ELSE None)
           [] OTHER -> None

follow_path(graph, key, path) == follow_components(graph, key, components(path), 1)

NotGitignore(name) == name # GITIGNORE
IsGitignore(name) == name = GITIGNORE

\* The listing left in the order of the scan.
sort_by_key_left_as_scanned(children) == children

\* children.sort_by_key(|name| name == ".gitignore"): a stable sort on a boolean.
sort_by_key(children) == SelectSeq(children, NotGitignore) \o SelectSeq(children, IsGitignore)

\* for child_path in children { unresolved_files.push(UnresolvedFile { key, path }) }
push_children(files, key, children) ==
    files \o [i \in 1..Len(children) |-> [key |-> key, path |-> children[i]]]

\* add_file once the scan has returned children: the store after, the key,
\* the work list after the pushes, and whether TreeStore::insert panicked.
add_file(store, entry, children, files) ==
    With(TreeStore_insert(store, entry), LAMBDA ins :
        [store |-> ins.store, key |-> ins.key, panic |-> ins.panic,
         files |-> push_children(files, ins.key, sort_by_key(children))])

\* Tree::new that resolves the symlinks found so far before it walks on.
loop_pc_symlinks_first(files, symlinks) ==
    IF symlinks # <<>> THEN "resolve" ELSE IF files # <<>> THEN "walk" ELSE "done"

\* Where Tree::new goes on once a step of one of its loops is over.
loop_pc(files, symlinks) ==
    IF files # <<>> THEN "walk" ELSE IF symlinks # <<>> THEN "resolve" ELSE "done"

\* The calls of a step that the operating system may fail (none: it fails none).
IoFaults == {"none", "open", "stat", "fdopendir", "scan", "readlink", "read"}

StdFds == (0 :> 0) @@ (1 :> 0) @@ (2 :> 0)

\* The build and the process around it as one value: what a step leaves behind.
Build(at, open, root, store, graph, ign, files, symlinks, limit, err) ==
    [pc |-> at, fds |-> open, root_entry |-> root, storage |-> store,
     structure |-> graph, ignores |-> ign,
     unresolved_files |-> files, unresolved_symlinks |-> symlinks,
     rlimit |-> limit, error |-> err]

\* Drop for File: the descriptors that the entries of the store do not own.
closed_by_drop(open, store) ==
    [fd \in DOMAIN open \ {store.storage[i].fd : i \in 1..Len(store.storage)} |-> open[fd]]

\* Tree::new returns Err(err): the Tree under construction is dropped, and every
\* File it owns closes its descriptor.  The limit stays as the calls left it.
Failed(err, limit) ==
    Build("failed", closed_by_drop(fds, storage), usize_max_value, TreeStore_new, Graph_new,
          Ignore_new, <<>>, <<>>, limit, Some(err))

\* fs.rs 142-143: fdopendir fails on the duplicate dup returned.  The ? returns
\* before the guard that closes the directory is set up, so the duplicate
\* stays open when Tree::new returns the error.
scan_leaked(dup, inode, limit) ==
    [Failed("fdopendir", limit) EXCEPT !.fds = (dup :> inode) @@ @]

\* The process aborts in unreachable!().
Panicked ==
    Build("panic", fds, root_entry, storage, structure, ignores,
          unresolved_files, unresolved_symlinks, rlimit, error)

\* tree.rs 41-66 once the root's entries are listed as children.
root_added(fd, children, limit) ==
    With(add_file(storage, TreeEntry_new(fd, fs.root), children, <<>>), LAMBDA added :
        IF added.panic THEN Panicked
        ELSE Build(loop_pc(added.files, <<>>), (fd :> fs.root) @@ fds, added.key,
                   added.store, structure, ignores, added.files, <<>>, limit, None))

\* tree.rs 60-66 once the root is open at fd: stat it, add_file it.
root_opened(io, fd, limit) ==
    IF io = "stat" THEN {Failed(io, limit)}
    ELSE IF fs.kind[fs.root] # "Directory" THEN {root_added(fd, <<>>, limit)}
    ELSE IF io = "scan" THEN {Failed(io, limit)}
    ELSE IF ~scan_dup((fd :> fs.root) @@ fds, limit).ok
    THEN {Failed(scan_dup((fd :> fs.root) @@ fds, limit).err, limit)}
    ELSE IF io = "fdopendir"
    THEN {scan_leaked(scan_dup((fd :> fs.root) @@ fds, limit).val, fs.root, limit)}
    ELSE {root_added(fd, children, limit) : children \in scan(fs.root)}

\* tree.rs 41-66: open and stat the root, add_file it.  The builds it may leave.
new_root(io) ==
    IF io = "open" THEN {Failed(io, rlimit)}
    ELSE With(File_open(fds, rlimit), LAMBDA opened :
            IF ~opened.result.ok THEN {Failed(opened.result.err, opened.rlimit)}
            ELSE root_opened(io, opened.result.val, opened.rlimit))

\* tree.rs 178-190: the end of add_child_file, once child_key is known.
link_child(parent_key, path, child_key, real_name, store, ign, files, open, limit) ==
    With(IF real_name # None
         THEN Append(unresolved_symlinks, [key |-> parent_key, path |-> real_name[1]])
         ELSE unresolved_symlinks,
         LAMBDA symlinks :
            Build(loop_pc(files, symlinks), open, root_entry, store,
                  add_edge(structure, parent_key, child_key, Child(path)),
                  open_at(ign, parent_key, path, child_key),
                  files, symlinks, limit, None))

\* tree.rs 171-176 once the child is open at fd: read it if it is a
\* .gitignore, add_file it, and link it.
child_opened(io, parent_key, path, st, real_name, popped, fd, limit) ==
    IF path = GITIGNORE /\ st.file_type = "Regular" /\ io = "read" THEN {Failed(io, limit)}
    ELSE IF st.file_type = "Directory" /\ io = "scan" THEN {Failed(io, limit)}
    ELSE With(IF path = GITIGNORE /\ st.file_type = "Regular"
              THEN parse_gitignore(ignores, fs.data[st.inode], parent_key)
              ELSE Ok(ignores),
              LAMBDA parsed :
                IF ~parsed.ok THEN {Failed(parsed.err, limit)}
                ELSE IF st.file_type = "Directory"
                        /\ ~scan_dup((fd :> st.inode) @@ fds, limit).ok
                THEN {Failed(scan_dup((fd :> st.inode) @@ fds, limit).err, limit)}
                ELSE IF st.file_type = "Directory" /\ io = "fdopendir"
                THEN {scan_leaked(scan_dup((fd :> st.inode) @@ fds, limit).val,
                                  st.inode, limit)}
                ELSE {With(add_file(storage, TreeEntry_new(fd, st.inode), children, popped),
                           LAMBDA added :
                             IF added.panic THEN Panicked
                             ELSE link_child(parent_key, path, added.key, real_name,
                                             added.store, parsed.val, added.files,
                                             (fd :> st.inode) @@ fds, limit)) :
                         children \in (IF st.file_type = "Directory"
                                       THEN scan(st.inode) ELSE {<<>>})})

\* tree.rs 170-176: the child is not in the store yet; open it and go on.
open_child(io, parent_key, path, st, real_name, popped) ==
    IF io = "open" THEN {Failed(io, rlimit)}
    ELSE With(File_open_at(fds, rlimit), LAMBDA opened :
            IF ~opened.result.ok THEN {Failed(opened.result.err, opened.rlimit)}
            ELSE child_opened(io, parent_key, path, st, real_name, popped,
                              opened.result.val, opened.rlimit))

\* tree.rs 161-190: the child is to be opened.
keep_child(io, parent_key, path, st, popped) ==
    IF st.file_type = "Link" /\ io = "readlink" THEN {Failed(io, rlimit)}
    ELSE With(IF st.file_type = "Link" THEN Some(get_link_name(st.inode)) ELSE None,
              LAMBDA real_name :
                With(inode_to_key(storage, st.inode), LAMBDA known :
                    IF known # None
                    THEN {link_child(parent_key, path, known[1], real_name,
                                     storage, ignores, popped, fds, rlimit)}
                    ELSE open_child(io, parent_key, path, st, real_name, popped)))

\* add_child_file with the ignore rules consulted before the result of stat_at.
add_child_file_ignore_first(io, parent_key, path, popped) ==
    With(stat_at(key_to_entry(storage, parent_key)[1].fd, path), LAMBDA st :
        IF ~should_open(ignores, parent_key, path, st.file_type = "Directory")
        THEN {Build(loop_pc(popped, unresolved_symlinks), fds, root_entry, storage,
                    structure, ignores, popped, unresolved_symlinks, rlimit, None)}
        ELSE IF io = "stat" THEN {Failed(io, rlimit)}
        ELSE keep_child(io, parent_key, path, st, popped))

\* add_child_file that never asks should_open.
add_child_file_keeps_every_child(io, parent_key, path, popped) ==
    IF io = "stat" THEN {Failed(io, rlimit)}
    ELSE With(stat_at(key_to_entry(storage, parent_key)[1].fd, path), LAMBDA st :
            keep_child(io, parent_key, path, st, popped))

\* tree.rs 143-191 for the work item (parent_key, path), popped the work list
\* without it.  The builds it may leave.
add_child_file(io, parent_key, path, popped) ==
    IF io = "stat" THEN {Failed(io, rlimit)}
    ELSE With(stat_at(key_to_entry(storage, parent_key)[1].fd, path), LAMBDA st :
            IF ~should_open(ignores, parent_key, path, st.file_type = "Directory")
            THEN {Build(loop_pc(popped, unresolved_symlinks), fds, root_entry, storage,
                        structure, ignores, popped, unresolved_symlinks, rlimit, None)}
            ELSE keep_child(io, parent_key, path, st, popped))

\* tree.rs 77-94: one iteration of the loop over unresolved_symlinks.
resolve_symlink(graph, key, path) ==
    With(find_parent(graph, key), LAMBDA parent :
        IF parent = None THEN graph
        ELSE With(follow_path(graph, parent[1].connects_to, path), LAMBDA target_key :
                IF target_key # None
                THEN add_edge(graph, key, target_key[1], SymLink)
                ELSE graph))

\* The step leaves the build next; the file system is as it was.
Becomes(next) ==
    /\ pc' = next.pc
    /\ fds' = next.fds
    /\ root_entry' = next.root_entry
    /\ storage' = next.storage
    /\ structure' = next.structure
    /\ ignores' = next.ignores
    /\ unresolved_files' = next.unresolved_files
    /\ unresolved_symlinks' = next.unresolved_symlinks
    /\ rlimit' = next.rlimit
    /\ error' = next.error
    /\ UNCHANGED <<fs, glob_vars>>

NewRoot ==
    /\ pc = "root"
    /\ \E io \in IoFaults : \E next \in new_root(io) : Becomes(next)

\* tree.rs 68-75: pop one work item and add_child_file it.
AddChildFile ==
    /\ pc = "walk"
    /\ unresolved_files # <<>>
    /\ \E io \in IoFaults :
         \E next \in add_child_file(io,
                                    unresolved_files[Len(unresolved_files)].key,
                                    unresolved_files[Len(unresolved_files)].path,
                                    SubSeq(unresolved_files, 1, Len(unresolved_files) - 1)) :
            Becomes(next)

ResolveSymlink ==
    /\ pc = "resolve"
    /\ unresolved_symlinks # <<>>
    /\ structure' = resolve_symlink(structure, unresolved_symlinks[1].key,
                                    unresolved_symlinks[1].path)
    /\ unresolved_symlinks' = Tail(unresolved_symlinks)
    /\ pc' = loop_pc(unresolved_files, Tail(unresolved_symlinks))
    /\ UNCHANGED <<fs, fds, root_entry, storage, ignores, unresolved_files, rlimit, error>>
    /\ UNCHANGED glob_vars

(***************************************************************************)
(* The file systems the build is checked on.  Inode 1 is the root.  Lines  *)
(* of a .gitignore are drawn from LinePool, at most MaxLines of them.      *)
(***************************************************************************)
A == <<"a">>
B == <<"b">>
D == <<"d">>
L == <<"l">>
E == <<"e">>
HIDDEN == <<".", "h">>

MaxLines == 2

LinePool ==
    { <<"a">>, <<"!", "a">>, <<"/", "a">>, <<"*">>, <<"!", ".", "h">>,
      <<"a", "/", "/", "b">>, <<"#", "a">> }

SeqsUpTo(S, n) == UNION {[1..m -> S] : m \in 0..n}

Contents == SeqsUpTo(LinePool, MaxLines)

\* A root with a .gitignore and two hard links a and b of one file.
FsFlat(lines) ==
    [root |-> 1,
     kind |-> (1 :> "Directory") @@ (2 :> "Regular") @@ (3 :> "Regular"),
     dirents |-> (1 :> ((GITIGNORE :> 2) @@ (A :> 3) @@ (B :> 3))),
     target |-> <<>>,
     data |-> (2 :> lines)]

\* A root with a .gitignore, a file a and a hidden file .h.
FsHidden(lines) ==
    [root |-> 1,
     kind |-> (1 :> "Directory") @@ (2 :> "Regular") @@ (3 :> "Regular") @@ (4 :> "Regular"),
     dirents |-> (1 :> ((GITIGNORE :> 2) @@ (A :> 3) @@ (HIDDEN :> 4))),
     target |-> <<>>,
     data |-> (2 :> lines)]

\* A directory d whose .gitignore is a hard link of the root's, and whose a is
\* a hard link of the root's a.
FsNested(lines) ==
    [root |-> 1,
     kind |-> (1 :> "Directory") @@ (2 :> "Regular") @@ (3 :> "Regular") @@ (5 :> "Directory"),
     dirents |-> (1 :> ((GITIGNORE :> 2) @@ (A :> 3) @@ (D :> 5)))
                 @@ (5 :> ((GITIGNORE :> 2) @@ (A :> 3))),
     target |-> <<>>,
     data |-> (2 :> lines)]

\* A root with a file a and a symbolic link l to target.
FsRootLink(target) ==
    [root |-> 1,
     kind |-> (1 :> "Directory") @@ (3 :> "Regular") @@ (8 :> "Link"),
     dirents |-> (1 :> ((A :> 3) @@ (L :> 8))),
     target |-> (8 :> target),
     data |-> <<>>]

\* A directory d with a file a and a symbolic link l to target.
FsDirLink(target) ==
    [root |-> 1,
     kind |-> (1 :> "Directory") @@ (5 :> "Directory") @@ (6 :> "Regular") @@ (9 :> "Link"),
     dirents |-> (1 :> (D :> 5)) @@ (5 :> ((A :> 6) @@ (L :> 9))),
     target |-> (9 :> target),
     data |-> <<>>]

\* A directory d whose entry a is a hard link of the root, and two symbolic
\* links that name each other: l to d/l and d/l to ../l.
FsCycle ==
    [root |-> 1,
     kind |-> (1 :> "Directory") @@ (5 :> "Directory") @@ (8 :> "Link") @@ (9 :> "Link"),
     dirents |-> (1 :> ((D :> 5) @@ (L :> 8))) @@ (5 :> ((A :> 1) @@ (L :> 9))),
     target |-> (8 :> <<"d", "/", "l">>) @@ (9 :> <<".", ".", "/", "l">>),
     data |-> <<>>]

\* A root with a .gitignore and a directory called name, which holds a file a
\* and a directory e with a file a of its own.
FsDeep(lines, name) ==
    [root |-> 1,
     kind |-> (1 :> "Directory") @@ (2 :> "Regular") @@ (3 :> "Regular") @@ (4 :> "Regular")
              @@ (5 :> "Directory") @@ (6 :> "Directory"),
     dirents |-> (1 :> ((GITIGNORE :> 2) @@ (name :> 5)))
                 @@ (5 :> ((A :> 3) @@ (E :> 6))) @@ (6 :> (A :> 4)),
     target |-> <<>>,
     data |-> (2 :> lines)]

\* The .gitignore files of the deep tree: one pattern, or a pattern and its
\* negation.
DeepContents ==
    { << <<"a">> >>, << <<"*">> >>, << <<"/", "a">> >>, << <<"d", "/", "a">> >>,
      << <<"d", "/", "e">> >>, << <<"*", "*", "/", "a">> >>,
      << <<"a">>, <<"!", "a">> >>, << <<"!", "a">>, <<"a">> >> }

\* A directory name that is valid UTF-8 and one that is not.
DeepNames == {D, <<BadByte>>}

LinkTargets ==
    { <<"a">>, <<".", ".", "/", "d", "/", "a">>,
      <<".", ".", "/", ".", ".", "/", "x">>, <<"x">> }

\* The root is a regular file.
FsFile ==
    [root |-> 1, kind |-> (1 :> "Regular"), dirents |-> <<>>, target |-> <<>>, data |-> <<>>]

Filesystems ==
    {FsFlat(lines) : lines \in Contents} \cup {FsHidden(lines) : lines \in Contents}
    \cup {FsNested(lines) : lines \in Contents}
    \cup {FsRootLink(target) : target \in LinkTargets}
    \cup {FsDirLink(target) : target \in LinkTargets} \cup {FsFile, FsCycle}
    \cup {FsDeep(lines, name) : lines \in DeepContents, name \in DeepNames}

\* Descriptors 5 to 10, or 3 to 10, were open when the process started.
Inherited == [fd \in 5..10 |-> 0]
Crowded == [fd \in 3..10 |-> 0]

\* The descriptors open and the limit set when Tree::new is called: room for
\* every descriptor; a soft limit that the scan of the root reaches; one that
\* the second child reaches, with and without room under the hard limit; and
\* one below descriptors that are open already.
Processes ==
    { [fds |-> StdFds, rlimit |-> [rlim_cur |-> 64, rlim_max |-> 64]],
      [fds |-> StdFds, rlimit |-> [rlim_cur |-> 4, rlim_max |-> 64]],
      [fds |-> StdFds, rlimit |-> [rlim_cur |-> 5, rlim_max |-> 64]],
      [fds |-> StdFds, rlimit |-> [rlim_cur |-> 5, rlim_max |-> 5]],
      [fds |-> StdFds, rlimit |-> [rlim_cur |-> 3, rlim_max |-> 64]],
      [fds |-> Inherited @@ StdFds, rlimit |-> [rlim_cur |-> 5, rlim_max |-> 64]],
      [fds |-> Crowded @@ StdFds, rlimit |-> [rlim_cur |-> 4, rlim_max |-> 64]] }

Init ==
    /\ fs \in Filesystems
    /\ \E process \in Processes : fds = process.fds /\ rlimit = process.rlimit
    /\ error = None
    /\ pc = "root"
    /\ root_entry = usize_max_value
    /\ storage = TreeStore_new
    /\ structure = Graph_new
    /\ ignores = Ignore_new
    /\ unresolved_files = <<>>
    /\ unresolved_symlinks = <<>>
    /\ pattern = <<>>
    /\ ast = None
    /\ arena = GlobArena_new
    /\ compiled = None

Next == NewRoot \/ AddChildFile \/ ResolveSymlink

Spec == Init /\ [][Next]_vars

\* Tree::new runs to its return: no step of it waits for anything.
FairSpec == Spec /\ WF_vars(Next)

(***************************************************************************)
(* The glob engine on its own: a pattern is parsed, and compiled into an   *)
(* arena that is empty or holds the segments of an earlier pattern.        *)
(***************************************************************************)
MaxPatternLen == 4

Alphabet == {"a", "x", ".", "/", "*", "?", "!", "[", "]", "-"}

LongPatterns ==
    { <<"a", "/", "b", "/", "c">>, <<"[", "a", "b", "c", "]">>,
      <<"x", "[", "a", "-", "c", "]", "y">>, <<"!", "*", "*", "/", "x">>,
      <<"a", "/", "/", "b", "/">> }

Patterns == SeqsUpTo(Alphabet, MaxPatternLen) \cup LongPatterns

EarlierPattern == <<"x", "/", "a">>

Parse ==
    /\ pc = "glob"
    /\ ast = None
    /\ ast' = Some(parse(pattern))
    /\ UNCHANGED <<tree_vars, pattern, arena, compiled>>

CompileGlob ==
    /\ pc = "glob"
    /\ ast # None
    /\ compiled = None
    /\ arena' = compile_glob(arena, pattern).arena
    /\ compiled' = Some(compile_glob(arena, pattern).result)
    /\ UNCHANGED <<tree_vars, pattern, ast>>

GlobInit ==
    /\ pattern \in Patterns
    /\ ast = None
    /\ arena \in {GlobArena_new, compile_glob(GlobArena_new, EarlierPattern).arena}
    /\ compiled = None
    /\ pc = "glob"
    /\ fs = FsFile
    /\ fds = StdFds
    /\ rlimit = [rlim_cur |-> 64, rlim_max |-> 64]
    /\ error = None
    /\ root_entry = usize_max_value
    /\ storage = TreeStore_new
    /\ structure = Graph_new
    /\ ignores = Ignore_new
    /\ unresolved_files = <<>>
    /\ unresolved_symlinks = <<>>

GlobNext == Parse \/ CompileGlob

GlobSpec == GlobInit /\ [][GlobNext]_vars

(***************************************************************************)
(* The store on its own: entries of a few descriptors and inodes are       *)
(* handed to TreeStore::insert, in any order and any pairing.              *)
(***************************************************************************)
MaxEntries == 3

StoreFds == {3, 4, 5}

StoreInodes == {1, 2, 3}

Insert ==
    /\ pc = "store"
    /\ Len(storage.storage) < MaxEntries
    /\ \E fd \in StoreFds, inode \in StoreInodes :
          With(TreeStore_insert(storage, TreeEntry_new(fd, inode)), LAMBDA inserted :
              /\ pc' = IF inserted.panic THEN "panic" ELSE "store"
              /\ storage' = inserted.store)
    /\ UNCHANGED <<fs, fds, root_entry, structure, ignores, unresolved_files,
                   unresolved_symlinks, rlimit, error, glob_vars>>

StoreInit ==
    /\ pc = "store"
    /\ storage = TreeStore_new
    /\ fs = FsFile
    /\ fds = StdFds
    /\ rlimit = [rlim_cur |-> 64, rlim_max |-> 64]
    /\ error = None
    /\ root_entry = usize_max_value
    /\ structure = Graph_new
    /\ ignores = Ignore_new
    /\ unresolved_files = <<>>
    /\ unresolved_symlinks = <<>>
    /\ pattern = <<>>
    /\ ast = None
    /\ arena = GlobArena_new
    /\ compiled = None

StoreNext == Insert

StoreSpec == StoreInit /\ [][StoreNext]_vars

(***************************************************************************)
(* The ignore stack on its own: the lines of one .gitignore are read into  *)
(* an Ignore that is new or already holds a pattern for the directory.     *)
(***************************************************************************)
MaxGitignoreLines == 3

GitignoreLines ==
    { <<"a">>, <<"!", "x">>, <<"a", "/", "x">>, <<"a", " ">>, <<"#", "a">>, <<" ">>, <<>>,
      <<"a", "/", "/", "x">>, <<"/">>, <<"a", BadByte>> }

\* The key of the directory whose .gitignore is read.
IgnoreAt == 0

EarlierIgnore == parse_gitignore(Ignore_new, <<EarlierPattern>>, IgnoreAt).val

ParseGitignore ==
    /\ pc = "ignore"
    /\ With(parse_gitignore(ignores, fs.data[2], IgnoreAt), LAMBDA parsed :
          IF parsed.ok
          THEN pc' = "parsed" /\ ignores' = parsed.val /\ error' = None
          ELSE pc' = "failed" /\ ignores' = ignores /\ error' = Some(parsed.err))
    /\ UNCHANGED <<fs, fds, root_entry, storage, structure, unresolved_files,
                   unresolved_symlinks, rlimit, glob_vars>>

IgnoreInit ==
    /\ pc = "ignore"
    /\ ignores \in {Ignore_new, EarlierIgnore}
    /\ \E lines \in SeqsUpTo(GitignoreLines, MaxGitignoreLines) : fs = FsFlat(lines)
    /\ fds = StdFds
    /\ rlimit = [rlim_cur |-> 64, rlim_max |-> 64]
    /\ error = None
    /\ root_entry = usize_max_value
    /\ storage = TreeStore_new
    /\ structure = Graph_new
    /\ unresolved_files = <<>>
    /\ unresolved_symlinks = <<>>
    /\ pattern = <<>>
    /\ ast = None
    /\ arena = GlobArena_new
    /\ compiled = None

IgnoreNext == ParseGitignore

IgnoreSpec == IgnoreInit /\ [][IgnoreNext]_vars

(***************************************************************************)
(* The graph on its own: edges between a few node indices are added in any *)
(* order, self loops and parallel edges included.                          *)
(***************************************************************************)
MaxEdges == 3

MaxNode == 2

GraphNodes == 0..MaxNode

GraphWeights == {Child(A), SymLink}

AddEdge ==
    /\ pc = "graph"
    /\ Len(structure.weights) < MaxEdges
    /\ \E from \in GraphNodes, to \in GraphNodes, weight \in GraphWeights :
          structure' = add_edge(structure, from, to, weight)
    /\ UNCHANGED <<fs, fds, pc, root_entry, storage, ignores, unresolved_files,
                   unresolved_symlinks, rlimit, error, glob_vars>>

GraphInit ==
    /\ pc = "graph"
    /\ structure = Graph_new
    /\ storage = TreeStore_new
    /\ fs = FsFile
    /\ fds = StdFds
    /\ rlimit = [rlim_cur |-> 64, rlim_max |-> 64]
    /\ error = None
    /\ root_entry = usize_max_value
    /\ ignores = Ignore_new
    /\ unresolved_files = <<>>
    /\ unresolved_symlinks = <<>>
    /\ pattern = <<>>
    /\ ast = None
    /\ arena = GlobArena_new
    /\ compiled = None

GraphNext == AddEdge

GraphSpec == GraphInit /\ [][GraphNext]_vars

(***************************************************************************)
(* The vocabulary of the properties.                                       *)
(***************************************************************************)
Keys == 0..(Len(storage.storage) - 1)

Nodes == 0..(Len(structure.nodes) - 1)

inode_of(key) == storage.storage[key + 1].inode

kind_of(key) == fs.kind[inode_of(key)]

keys_of(inode) == {key \in Keys : inode_of(key) = inode}

out_edges(node) == {outgoing(structure, node)[i] : i \in 1..Len(outgoing(structure, node))}

has_child_edge(from, name) ==
    \E e \in out_edges(from) : e.weight = Child(name)

is_hidden(name) == starts_with(name, DOT) /\ name # GITIGNORE

\* The directory of key holds a regular file named .gitignore.
has_gitignore(key) ==
    /\ kind_of(key) = "Directory"
    /\ GITIGNORE \in DOMAIN fs.dirents[inode_of(key)]
    /\ fs.kind[fs.dirents[inode_of(key)][GITIGNORE]] = "Regular"

gitignore_lines(key) == fs.data[fs.dirents[inode_of(key)][GITIGNORE]]

\* The patterns of one file on their own: its lines compiled into an empty
\* Ignore and attached to directory 0.
own_patterns(lines) == parse_gitignore(Ignore_new, lines, 0).val

own_verdicts(own, name, is_dir) ==
    {match_file(own.arena, globs_at(own, 0)[i], name, is_dir) :
        i \in 1..Len(globs_at(own, 0))}

\* name is matched by a non-negated pattern of lines and by no negated one.
ignored_by(lines, name, is_dir) ==
    With(own_verdicts(own_patterns(lines), name, is_dir), LAMBDA verdicts :
        Some(TRUE) \in verdicts /\ Some(FALSE) \notin verdicts)

\* C1: after a successful build, no directory that holds a regular .gitignore
\* has a Child edge to an entry whose name that file ignores, a .gitignore
\* that is a hard link of an earlier file included.
C1_NoChildEdgeToIgnoredName ==
    pc = "done" =>
        \A key \in Keys :
            has_gitignore(key) =>
                \A name \in DOMAIN fs.dirents[inode_of(key)] :
                    ignored_by(gitignore_lines(key), name,
                               fs.kind[fs.dirents[inode_of(key)][name]] = "Directory")
                        => ~has_child_edge(key, name)

\* C2: in every state of the build no edge is labelled Child(n) for a name n
\* that begins with '.' other than .gitignore, whatever the patterns say.
C2_NoChildEdgeToHiddenName ==
    \A node \in Nodes :
        \A e \in out_edges(node) : e.weight.kind = "Child" => ~is_hidden(e.weight.name)

\* A finished build of a root that holds .h and a .gitignore with the line !.h,
\* in which the root got a Child edge.
C2_Witness ==
    /\ pc = "done"
    /\ \E lines \in Contents :
         /\ fs = FsHidden(lines)
         /\ \E i \in 1..Len(lines) : lines[i] = <<"!", ".", "h">>
    /\ has_child_edge(root_entry, A)

\* C3: in every state of the build no two distinct store entries share a
\* descriptor and no two share an inode.
C3_EntriesShareNeitherFdNorInode ==
    \A i, j \in Keys :
        i # j => /\ storage.storage[i + 1].fd # storage.storage[j + 1].fd
                 /\ storage.storage[i + 1].inode # storage.storage[j + 1].inode

\* A finished build in which one inode was reached under two names.
C3_Witness ==
    /\ pc = "done"
    /\ \E node \in Nodes : has_child_edge(node, A) /\ has_child_edge(node, B)
    /\ Cardinality(Keys) >= 3

\* C4: after a build, a node with more than one incoming edge has exactly one
\* from another node, a Child edge, and the others are SymLink edges.
C4_OneStructuralParent ==
    pc = "done" =>
        \A node \in Nodes :
            Len(incoming(structure, node)) > 1 =>
                /\ Cardinality({i \in 1..Len(incoming(structure, node)) :
                                  incoming(structure, node)[i].connects_to # node}) = 1
                /\ \A i \in 1..Len(incoming(structure, node)) :
                     IF incoming(structure, node)[i].connects_to # node
                     THEN incoming(structure, node)[i].weight.kind = "Child"
                     ELSE incoming(structure, node)[i].weight.kind = "SymLink"

\* C5: after a build, every node with an outgoing Child edge is a Directory
\* and every node with an outgoing SymLink edge is a Link.
C5_EdgeSourcesHaveTheirKind ==
    pc = "done" =>
        \A node \in Nodes :
            \A e \in out_edges(node) :
                /\ e.weight.kind = "Child" => kind_of(node) = "Directory"
                /\ e.weight.kind = "SymLink" => kind_of(node) = "Link"

ProbeNames == {A, B, D, GITIGNORE}

verdicts_at(parent, name, is_dir) ==
    {match_file(ignores.arena, globs_at(ignores, parent)[i], name, is_dir) :
        i \in 1..Len(globs_at(ignores, parent))}

\* The precedence of the specification over a set of verdicts of match_file.
keep_over_ignore(verdicts) ==
    IF Some(FALSE) \in verdicts THEN TRUE ELSE IF Some(TRUE) \in verdicts THEN FALSE ELSE TRUE

reordered(self, parent, order) ==
    [self EXCEPT !.key_to_globs[parent] = [i \in 1..Len(order) |-> @[order[i]]]]

\* C6: for a non-hidden name should_open is true if some active segment gives
\* a negated match, else false if some gives a match, else true, in whatever
\* order the segments of the parent are held.
C6_KeepOverridesIgnore ==
    \A parent \in DOMAIN ignores.key_to_globs :
        \A name \in ProbeNames : \A is_dir \in BOOLEAN :
            \A order \in Orders(1..Len(globs_at(ignores, parent))) :
                should_open(reordered(ignores, parent, order), parent, name, is_dir)
                    = keep_over_ignore(verdicts_at(parent, name, is_dir))

\* A directory whose first active segment ignores a and whose second keeps it.
C6_Witness ==
    \E parent \in DOMAIN ignores.key_to_globs :
        /\ Len(globs_at(ignores, parent)) >= 2
        /\ match_file(ignores.arena, globs_at(ignores, parent)[1], A, FALSE) = Some(TRUE)
        /\ match_file(ignores.arena, globs_at(ignores, parent)[2], A, FALSE) = Some(FALSE)

\* The head records of the patterns of lines: what compile_glob stores for the
\* first segment of each.
own_heads(own) == {own.arena.storage[globs_at(own, 0)[i] + 1] : i \in 1..Len(globs_at(own, 0))}

active_heads(key) ==
    {ignores.arena.storage[globs_at(ignores, key)[i] + 1] :
        i \in 1..Len(globs_at(ignores, key))}

\* C7: when a child other than .gitignore of a directory that lists a
\* .gitignore is about to be popped, the item of that .gitignore is no longer
\* on the work list and the patterns of the file are in active[d].
C7_GitignoreFirstAndActive ==
    (pc = "walk" /\ unresolved_files # <<>>
        /\ unresolved_files[Len(unresolved_files)].path # GITIGNORE
        /\ has_gitignore(unresolved_files[Len(unresolved_files)].key))
    => /\ \A i \in 1..Len(unresolved_files) :
            unresolved_files[i]
                # [key |-> unresolved_files[Len(unresolved_files)].key, path |-> GITIGNORE]
       /\ own_heads(own_patterns(gitignore_lines(unresolved_files[Len(unresolved_files)].key)))
            \subseteq active_heads(unresolved_files[Len(unresolved_files)].key)

\* l is a symbolic link of the directory of key to the name of a file of the
\* same directory that got its Child edge.
links_to_sibling(key, l, a) ==
    /\ kind_of(key) = "Directory"
    /\ l \in DOMAIN fs.dirents[inode_of(key)]
    /\ a \in DOMAIN fs.dirents[inode_of(key)]
    /\ fs.kind[fs.dirents[inode_of(key)][l]] = "Link"
    /\ fs.target[fs.dirents[inode_of(key)][l]] = a
    /\ has_child_edge(key, a)

symlink_edges(node) == {e \in out_edges(node) : e.weight.kind = "SymLink"}

\* C8: after the build, the node of a symlink l whose target names a
\* non-ignored file a of its directory has exactly one outgoing SymLink edge,
\* to the node of a.
C8_SymlinkEdgeToSibling ==
    pc = "done" =>
        \A key \in Keys : \A l \in {L} : \A a \in {A} :
            links_to_sibling(key, l, a) =>
                \E from \in keys_of(fs.dirents[inode_of(key)][l]) :
                    \E to \in keys_of(fs.dirents[inode_of(key)][a]) :
                        /\ symlink_edges(from) = {[weight |-> SymLink, connects_to |-> to]}
                        /\ Len(outgoing(structure, from)) = 1

ClimbsAboveRoot == <<".", ".", "/", ".", ".", "/", "x">>
NamesNoEntry == <<"x">>

\* The file systems whose only symbolic link cannot be resolved in the tree.
UnresolvableLinks ==
    {FsRootLink(ClimbsAboveRoot), FsRootLink(NamesNoEntry),
     FsDirLink(ClimbsAboveRoot), FsDirLink(NamesNoEntry)}

\* C9: a symlink whose target cannot be resolved inside the walked tree does
\* not fail the build and gets no SymLink edge.
C9_UnresolvableLinkGetsNoEdge ==
    fs \in UnresolvableLinks =>
        /\ pc \in {"resolve", "done"} => \A node \in Nodes : symlink_edges(node) = {}
        /\ pc = "failed" => unresolved_symlinks = <<>>

HardLinksWithIgnoredA == FsFlat(<< A >>)

\* C10 as stated: a root with hard links a and b and a .gitignore listing a
\* ends with no edge for a, a Child edge for b, and the two entries root and b.
C10_StoreHoldsRootAndB ==
    (pc = "done" /\ fs = HardLinksWithIgnoredA) =>
        /\ \A node \in Nodes : ~has_child_edge(node, A)
        /\ \E b \in keys_of(3) : [weight |-> Child(B), connects_to |-> b] \in out_edges(root_entry)
        /\ {inode_of(key) : key \in Keys} = {1, 3}
        /\ Len(storage.storage) = 2

\* C10, amended: the same build ends with no edge for a, a Child edge for b,
\* and the three entries root, .gitignore and b.
C10_StoreHoldsRootGitignoreAndB ==
    (pc = "done" /\ fs = HardLinksWithIgnoredA) =>
        /\ \A node \in Nodes : ~has_child_edge(node, A)
        /\ \E b \in keys_of(3) : [weight |-> Child(B), connects_to |-> b] \in out_edges(root_entry)
        /\ {inode_of(key) : key \in Keys} = {1, 2, 3}
        /\ Len(storage.storage) = 3

\* The build of that root is finished and b has its Child edge.
C10_Witness ==
    /\ pc = "done"
    /\ fs = HardLinksWithIgnoredA
    /\ has_child_edge(root_entry, B)

\* C11: a call of File::open or File::open_at that meets 'too many open
\* files' doubles the soft limit once and retries once; no step of the build
\* leaves the soft limit raised more than once.
C11_LimitRaisedAtMostOnce ==
    [][rlimit'.rlim_cur = rlimit.rlim_cur \/ rlimit'.rlim_cur = 2 * rlimit.rlim_cur]_vars

\* C12: while every open descriptor is below the soft limit and the hard limit
\* allows the soft limit to be doubled, running out of descriptors is recovered:
\* the build does not return 'too many open files'.
C12_ExhaustionIsRecovered ==
    error = Some("EMFILE") =>
        ~(/\ \A fd \in DOMAIN fds : fd < rlimit.rlim_cur
          /\ 2 * rlimit.rlim_cur <= rlimit.rlim_max)

top_file == unresolved_files[Len(unresolved_files)]

popped_files == SubSeq(unresolved_files, 1, Len(unresolved_files) - 1)

\* Every build that add_child_file may leave for the item on top, with the
\* call io failing, is the failed build with that error.
fails_with(io) ==
    \A next \in add_child_file(io, top_file.key, top_file.path, popped_files) :
        /\ next.pc = "failed"
        /\ next.error = Some(io)
        /\ next.storage = TreeStore_new
        /\ next.unresolved_files = <<>>

arena_keys == 0..(Len(arena.storage) - 1)

NotUtf8 == <<"a", BadByte>>

GlobNames ==
    { <<"a">>, <<"b">>, <<"c">>, <<"d">>, <<"x">>, <<"a", "b">>, <<"a", "]">>, <<"]">>,
      <<"x", "a", "y">>, <<"x", "b", "y">>, <<"x", "c", "y">>, <<"x", "d", "y">>,
      <<"x", "b", "y", "]">>, <<"x", "b", "]", "y">>, NotUtf8 }

PathABC == <<"a", "/", "b", "/", "c">>

\* The key that compile_glob returned.
first_key == compiled[1].val

\* C14: match_file is None at a segment that has a successor; at one without
\* it is Some(!negated) for a UTF-8 name that the matcher accepts and None
\* otherwise.  For a/b/c: None at the first two segments, Some(true) at the last.
C14_MatchFileAnswersAtLastSegment ==
    /\ \A key \in arena_keys : \A name \in GlobNames : \A is_dir \in BOOLEAN :
         match_file(arena, key, name, is_dir)
           = IF key \in DOMAIN arena.children THEN None
             ELSE IF to_str(name) # None /\ segment_matches(arena.storage[key + 1], name)
                  THEN Some(~arena.storage[key + 1].negated)
                  ELSE None
    /\ (pattern = PathABC /\ compiled # None) =>
         /\ compiled[1].ok
         /\ match_file(arena, first_key, <<"a">>, TRUE) = None
         /\ match_file(arena, arena.children[first_key], <<"b">>, TRUE) = None
         /\ match_file(arena, arena.children[arena.children[first_key]], <<"c">>, FALSE)
              = Some(TRUE)
         /\ match_file(arena, arena.children[arena.children[first_key]], <<"a">>, FALSE)
              = None
         /\ match_file(arena, arena.children[arena.children[first_key]], NotUtf8, FALSE)
              = None

\* a/b/c is compiled into an arena that held segments already.
C14_Witness ==
    /\ pattern = PathABC
    /\ compiled # None
    /\ compiled[1].ok
    /\ first_key > 0

\* The successor of the segment, if it has one and the name, a UTF-8 name,
\* matches its matcher.
descend(key, name) ==
    IF key \in DOMAIN arena.children /\ to_str(name) # None
       /\ segment_matches(arena.storage[key + 1], name)
    THEN <<arena.children[key]>> ELSE <<>>

\* The segment itself, if it is Anything or relative.
stay(key) ==
    IF arena.storage[key + 1].segment = None \/ arena.storage[key + 1].relative
    THEN <<key>> ELSE <<>>

Utf8Names == {name \in GlobNames : to_str(name) # None}

StarStarX == <<"*", "*", "/", "x">>

\* C15: match_dir yields the successor, if there is one and the name matches,
\* then the segment itself, if it is Anything or relative, and None when there
\* is neither; for any directory name.
C15_MatchDirDescendsThenStays ==
    \A key \in arena_keys : \A name \in GlobNames :
        match_dir(arena, key, name)
          = IF descend(key, name) \o stay(key) = <<>> THEN None
            ELSE Some(descend(key, name) \o stay(key))

MaxDepth == 2

\* The Ignore of a directory 0 whose .gitignore holds the pattern as its one line.
declared == parse_gitignore(Ignore_new, <<pattern>>, 0).val

\* The Ignore after the walk has gone down depth directories named d from 0,
\* the directory at depth n having key n.
RECURSIVE walked_down(_)
walked_down(depth) ==
    IF depth = 0 THEN declared
    ELSE open_at(walked_down(depth - 1), depth - 1, D, depth)

X == <<"x">>

\* C16: with **/x declared in the .gitignore of a directory, an entry named x
\* is ignored at every depth at or below that directory, directly inside it
\* included.
C16_StarStarMatchesZeroComponents ==
    (pattern = StarStarX /\ compiled # None) =>
        \A depth \in 0..MaxDepth : \A is_dir \in BOOLEAN :
            ~should_open(walked_down(depth), depth, X, is_dir)

\* The text holds two consecutive separators.
has_double_separator(text) ==
    \E i \in 1..(Len(text) - 1) : text[i] = "/" /\ text[i + 1] = "/"

NoComponent == {<<>>, <<"!">>, <<"/">>}

\* C17: compile_glob returns an error for every pattern that holds '//', at
\* the start, in the middle or at the end, and for the patterns without any
\* component: the empty one, '!' and '/'.
C17_DoubleSeparatorAndEmptyAreErrors ==
    (compiled # None /\ (has_double_separator(pattern) \/ pattern \in NoComponent))
        => ~compiled[1].ok

ClassABC == <<"[", "a", "b", "c", "]">>
ClassRange == <<"x", "[", "a", "-", "c", "]", "y">>

\* The names of the probe set that the compiled pattern matches as a file.
matched_names == {name \in GlobNames : match_file(arena, first_key, name, FALSE) = Some(TRUE)}

\* C18: a class matches one character out of those listed and its closing ']'
\* is consumed: [abc] matches exactly a, b and c, and x[a-c]y exactly xay, xby
\* and xcy.
C18_ClassMatchesOneListedCharacter ==
    /\ (pattern = ClassABC /\ compiled # None) =>
          compiled[1].ok /\ matched_names = {<<"a">>, <<"b">>, <<"c">>}
    /\ (pattern = ClassRange /\ compiled # None) =>
          compiled[1].ok
          /\ matched_names = {<<"x", "a", "y">>, <<"x", "b", "y">>, <<"x", "c", "y">>}

\* Some '[' of the text has no ']' after it.
unterminated_class(text) ==
    \E i \in 1..Len(text) :
        text[i] = "[" /\ \A j \in (i + 1)..Len(text) : text[j] # "]"

\* Some class of the text ends in a letter and a '-' that no letter follows.
dangling_dash(text) ==
    \E i \in 1..Len(text) : \E j \in (i + 3)..Len(text) :
        /\ text[i] = "[" /\ text[j] = "]"
        /\ \A k \in (i + 1)..(j - 1) : text[k] # "]"
        /\ text[j - 1] = "-" /\ text[j - 2] # "-"
        /\ text[j - 3] # "-"

\* C19: parse returns an error for every pattern with a '[' that no ']'
\* closes, and for every class that ends in a dangling '-'.
C19_BrokenClassIsParseError ==
    (ast # None /\ (unterminated_class(pattern) \/ dangling_dash(pattern)))
        => ~ast[1].ok

\* C20: if a pattern parses to a segment list with starts_negated false, then
\* '!' followed by the pattern parses to the same list with starts_negated true.
C20_NegationOnlySetsTheFlag ==
    (ast # None /\ ast[1].ok /\ ~ast[1].val.starts_negated) =>
        parse(<<"!">> \o pattern)
          = Ok([starts_negated |-> TRUE, segments |-> ast[1].val.segments])

\* What the pattern language says a component matches: '*' any run of
\* characters other than '/', '?' one such character, any other character
\* itself, the whole name and nothing less.
RECURSIVE component_matches(_, _, _, _)
component_matches(component, i, name, j) ==
    IF i > Len(component) THEN j > Len(name)
    ELSE CASE component[i] = "*" ->
                 \/ component_matches(component, i + 1, name, j)
                 \/ j <= Len(name) /\ name[j] # "/"
                                   /\ component_matches(component, i, name, j + 1)
           [] component[i] = "?" ->
                 j <= Len(name) /\ name[j] # "/"
                                /\ component_matches(component, i + 1, name, j + 1)
           [] OTHER ->
                 j <= Len(name) /\ name[j] = component[i]
                                /\ component_matches(component, i + 1, name, j + 1)

\* One component of wildcards and plain characters: no separator, no class,
\* no leading '!' and no two adjacent stars.
plain_component(text) ==
    /\ text # <<>> /\ text[1] # "!"
    /\ \A i \in 1..Len(text) : text[i] \notin {"/", "["}
    /\ \A i \in 1..(Len(text) - 1) : ~(text[i] = "*" /\ text[i + 1] = "*")

MaxNameLen == 3

ComponentNames ==
    SeqsUpTo({"a", "x", ".", "/"}, MaxNameLen)
        \cup {<<"a", "/", "a", ".", "x">>, <<"a", "x", ".", "x">>, <<"a", ".", "x", "x">>}

StarDotX == <<"*", ".", "x">>

\* C21: a component of '*', '?' and plain characters parses to one Pattern
\* whose regex matches a whole name exactly when '*' stands for a run of
\* characters other than '/', '?' for one such character and every other
\* character for itself.
C21_WildcardsMatchWithinOneComponent ==
    (ast # None /\ plain_component(pattern)) =>
        /\ ast[1].ok
        /\ Len(ast[1].val.segments) = 1
        /\ ast[1].val.segments[1].kind = "Pattern"
        /\ \A name \in ComponentNames :
              is_match(ast[1].val.segments[1].regex, name)
                  <=> component_matches(pattern, 1, name, 1)

C21_Witness ==
    /\ pattern = StarDotX /\ ast # None /\ ast[1].ok
    /\ is_match(ast[1].val.segments[1].regex, <<"a", ".", "x">>)
    /\ is_match(ast[1].val.segments[1].regex, <<".", "x">>)
    /\ ~is_match(ast[1].val.segments[1].regex, <<"a", "/", "a", ".", "x">>)
    /\ ~is_match(ast[1].val.segments[1].regex, <<"a", ".", "x", "x">>)

RECURSIVE split_on_separator(_, _, _)
split_on_separator(text, i, current) ==
    IF i > Len(text) THEN <<current>>
    ELSE IF text[i] = "/"
    THEN <<current>> \o split_on_separator(text, i + 1, <<>>)
    ELSE split_on_separator(text, i + 1, Append(current, text[i]))

\* The pieces of the text between its '/'.
pattern_components(text) == split_on_separator(text, 1, <<>>)

StarStar == <<"*", "*">>

literal_component(c) == \A i \in 1..Len(c) : c[i] \notin {"*", "?"}

\* Components separated by single '/': each is '**' or a non-empty run of
\* wildcards and plain characters, and the pattern is not negated.
separated_components(text) ==
    /\ text # <<>> /\ text[1] # "!"
    /\ \A n \in 1..Len(pattern_components(text)) :
          With(pattern_components(text)[n], LAMBDA c :
              /\ c # <<>>
              /\ \A i \in 1..Len(c) : c[i] # "["
              /\ c = StarStar
                   \/ \A i \in 1..(Len(c) - 1) : ~(c[i] = "*" /\ c[i + 1] = "*"))

RegexMetacharacters == {".", "]", "-"}

\* The text ^c$ with a backslash in front of every regex metacharacter of c.
RECURSIVE escaped(_, _)
escaped(c, i) ==
    IF i > Len(c) THEN <<>>
    ELSE (IF c[i] \in RegexMetacharacters THEN <<"\\", c[i]>> ELSE <<c[i]>>)
             \o escaped(c, i + 1)

anchored(c) == <<"^">> \o escaped(c, 1) \o <<"$">>

\* The segment is the one the component c has to become.
segment_of_component(segment, c) ==
    IF c = StarStar THEN segment = SegAnything
    ELSE /\ segment.kind = "Pattern"
         /\ literal_component(c) => as_str(segment.regex) = anchored(c)
         /\ \A name \in ComponentNames \cup {c} :
               is_match(segment.regex, name) <=> component_matches(c, 1, name, 1)

\* C22: for components separated by single '/', parse returns one segment per
\* component, in order, with one Separator between each pair: Anything for
\* '**', and otherwise a Pattern, which for a literal component c is ^c$ with
\* the metacharacters escaped.
C22_ComponentsBecomeSegmentsInOrder ==
    (ast # None /\ separated_components(pattern)) =>
        With(pattern_components(pattern), LAMBDA cs :
            /\ ast[1].ok /\ ~ast[1].val.starts_negated
            /\ Len(ast[1].val.segments) = 2 * Len(cs) - 1
            /\ \A n \in 1..Len(cs) :
                  segment_of_component(ast[1].val.segments[2 * n - 1], cs[n])
            /\ \A n \in 1..(Len(cs) - 1) :
                  ast[1].val.segments[2 * n] = SegSeparator)

ADotX == <<"a", "/", ".", "x">>
AStarStar == <<"a", "/", "*", "*">>

C22_Witness ==
    /\ ast # None /\ ast[1].ok
    /\ \/ /\ pattern = PathABC
          /\ Len(ast[1].val.segments) = 5
          /\ as_str(ast[1].val.segments[5].regex) = <<"^", "c", "$">>
       \/ /\ pattern = ADotX
          /\ as_str(ast[1].val.segments[3].regex) = <<"^", "\\", ".", "x", "$">>
       \/ /\ pattern = AStarStar
          /\ ast[1].val.segments[2] = SegSeparator
          /\ ast[1].val.segments[3] = SegAnything

\* C23: TreeStore::insert aborts on an entry that shares exactly one of its
\* two keys with an existing entry, so the store never holds two entries with
\* the same descriptor and different inodes, or the same inode and different
\* descriptors.
C23_InsertAbortsOnOneSharedKey ==
    \A i, j \in Keys :
        i # j => ((storage.storage[i + 1].fd = storage.storage[j + 1].fd)
                    <=> (storage.storage[i + 1].inode = storage.storage[j + 1].inode))

\* The lines that are neither comments nor blank, without their trailing
\* whitespace, in file order.
RECURSIVE pattern_lines(_, _)
pattern_lines(lines, i) ==
    IF i > Len(lines) THEN <<>>
    ELSE IF lines[i] # <<>> /\ lines[i][1] = "#" THEN pattern_lines(lines, i + 1)
    ELSE IF \A n \in 1..Len(lines[i]) : lines[i][n] = " " THEN pattern_lines(lines, i + 1)
    ELSE <<SubSeq(lines[i], 1,
                  CHOOSE last \in 1..Len(lines[i]) :
                      /\ lines[i][last] # " "
                      /\ \A n \in (last + 1)..Len(lines[i]) : lines[i][n] = " ")>>
             \o pattern_lines(lines, i + 1)

\* The segments of the pattern, as compile_glob lays them out in a new arena.
segments_of(text) == compile_glob(GlobArena_new, text).arena.storage

RECURSIVE compiling_lines(_, _)
compiling_lines(texts, i) ==
    IF i > Len(texts) THEN <<>>
    ELSE (IF compile_glob(GlobArena_new, texts[i]).result.ok THEN <<texts[i]>> ELSE <<>>)
             \o compiling_lines(texts, i + 1)

\* The segments chained from key in the arena.
RECURSIVE chain_of(_, _)
chain_of(self, key) ==
    <<self.storage[key + 1]>>
        \o (IF key \in DOMAIN self.children THEN chain_of(self, self.children[key]) ELSE <<>>)

is_text(lines) == \A i \in 1..Len(lines) : to_str(lines[i]) # None

\* after holds, at the directory, the identifiers it held before followed by
\* one identifier per compiling pattern line, each the head of its segments.
appended_in_order(before, after, lines) ==
    With(compiling_lines(pattern_lines(lines, 1), 1), LAMBDA texts :
        With(globs_at(after, IgnoreAt), LAMBDA globs :
            /\ Len(globs) = Len(globs_at(before, IgnoreAt)) + Len(texts)
            /\ SubSeq(globs, 1, Len(globs_at(before, IgnoreAt))) = globs_at(before, IgnoreAt)
            /\ \A n \in 1..Len(texts) :
                  chain_of(after.arena, globs[Len(globs_at(before, IgnoreAt)) + n])
                      = segments_of(texts[n])))

\* C24: parse_gitignore of a text file returns Ok, whether or not some of its
\* lines fail to compile, and appends to active[dir] exactly the identifiers
\* of the lines that are neither comments nor blank and that compile once
\* their trailing whitespace is trimmed, in file order.
C24_BadLinesAreSkippedAlone ==
    [][(pc = "ignore" /\ is_text(fs.data[2])) =>
          /\ pc' = "parsed"
          /\ appended_in_order(ignores, ignores', fs.data[2])]_vars

\* A file with a line that compiles before and after one that does not, read
\* into an Ignore that held a pattern already.
C24_Witness ==
    /\ pc = "parsed"
    /\ fs.data[2] = << <<"a", " ">>, <<"a", "/", "/", "x">>, <<"!", "x">> >>
    /\ Len(globs_at(ignores, IgnoreAt)) = 3

\* C25: the build of every file system terminates with an empty work list,
\* cycles of hard links and of symbolic links included, and no inode is
\* ever stored, hence scanned, twice.
C25_BuildTerminates ==
    /\ <>[](pc \in {"done", "failed"} /\ unresolved_files = <<>>)
    /\ [](\A key \in Keys : keys_of(inode_of(key)) = {key})

\* The build of the file system with both cycles has ended with its four
\* inodes stored and the root reached again from d.
C25_Witness ==
    /\ pc = "done" /\ fs = FsCycle
    /\ Cardinality(Keys) = 4
    /\ \E node \in Nodes : node # root_entry /\ has_child_edge(node, A)

\* The nodes that a Child edge leads to from a node of S, and S itself.
child_step(S) ==
    S \cup {e.connects_to : e \in {f \in UNION {out_edges(n) : n \in S} : f.weight.kind = "Child"}}

RECURSIVE child_steps(_, _)
child_steps(S, n) == IF n = 0 THEN S ELSE child_steps(child_step(S), n - 1)

\* The directories opened at or anywhere below the directory of key.
opened_below(key) ==
    {e \in child_steps({key}, Cardinality(Nodes)) : e \in Keys /\ kind_of(e) = "Directory"}

\* The patterns of the .gitignore of key that are one component without a
\* leading '/' and without negation.
relative_patterns(key) ==
    {p \in {pattern_lines(gitignore_lines(key), 1)[i] :
                i \in 1..Len(pattern_lines(gitignore_lines(key), 1))} :
        /\ p[1] # "!"
        /\ \A i \in 1..Len(p) : p[i] # "/"
        /\ compile_glob(GlobArena_new, p).result.ok}

\* The segment chains that the identifiers of active[key] head.
active_chains(key) ==
    {chain_of(ignores.arena, globs_at(ignores, key)[i]) : i \in 1..Len(globs_at(ignores, key))}

\* A negated pattern active in the directory of key matches the name.
kept_by_negation(key, name) ==
    \E i \in 1..Len(globs_at(ignores, key)) :
        match_file(ignores.arena, globs_at(ignores, key)[i], name, FALSE) = Some(FALSE)

child_names(key) == {e.weight.name : e \in {f \in out_edges(key) : f.weight.kind = "Child"}}

\* C26: after the build, a one-component pattern without leading '/' of the
\* .gitignore of d is active in every directory opened at or below d, and no
\* Child edge of such a directory carries a name the pattern matches, unless
\* a negated pattern active in that directory matches the name too.
C26_RelativePatternAppliesAtAnyDepth ==
    pc = "done" =>
        \A d \in Keys :
            has_gitignore(d) =>
                \A p \in relative_patterns(d) : \A e \in opened_below(d) :
                    /\ segments_of(p) \in active_chains(e)
                    /\ \A name \in child_names(e) :
                          component_matches(p, 1, name, 1) => kept_by_negation(e, name)

in_edges(node) == {incoming(structure, node)[i] : i \in 1..Len(incoming(structure, node))}

\* The segments that precede the segment of key in its pattern: at most one.
preceding(key) == {c \in DOMAIN ignores.arena.children : ignores.arena.children[c] = key}

name_matches(key, name) ==
    \/ ignores.arena.storage[key + 1].segment = None
    \/ to_str(name) # None /\ is_match(ignores.arena.storage[key + 1].segment[1], name)

\* The segment of key may be aimed at the entries of node: it heads its
\* pattern and node is the root, where every parsed .gitignore of the model
\* lies; or a Child edge leads to node from a directory where the segment
\* before it is aimed and matches the name of the edge; or the segment is **
\* and is aimed at that directory.  steps bounds the length of the walk.
RECURSIVE aimed_at(_, _, _)
aimed_at(node, key, steps) ==
    \/ preceding(key) = {} /\ node = root_entry
    \/ /\ steps > 0
       /\ \E edge \in {f \in in_edges(node) : f.weight.kind = "Child"} :
             \/ \E before \in preceding(key) :
                   /\ name_matches(before, edge.weight.name)
                   /\ aimed_at(edge.connects_to, before, steps - 1)
             \/ /\ ignores.arena.storage[key + 1].segment = None
                /\ aimed_at(edge.connects_to, key, steps - 1)

\* C27: a segment of a pattern with fixed_path = true is in active[e] only
\* if e is reached from the directory of the pattern through directories
\* whose names match the segments before it in order, or through a **
\* segment; the segment of '/x' is active in that directory alone.
C27_AnchoredPatternStaysOnItsPath ==
    \A e \in Keys : \A i \in 1..Len(globs_at(ignores, e)) :
        ~ignores.arena.storage[globs_at(ignores, e)[i] + 1].relative
            => aimed_at(e, globs_at(ignores, e)[i], Cardinality(Nodes))

\* Builds of the deep tree that ended: with 'd/a' the second segment is
\* active in d and d/a has no edge while d/e/a has one; with '/a' the file a
\* of d has its edge.
C27_Witness ==
    /\ pc = "done"
    /\ \/ /\ fs = FsDeep(<< <<"d", "/", "a">> >>, D)
          /\ \E d \in Keys : /\ globs_at(ignores, d) = <<1>>
                             /\ ~has_child_edge(d, A) /\ has_child_edge(d, E)
          /\ \E e \in Keys : kind_of(e) = "Directory" /\ e # root_entry
                             /\ globs_at(ignores, e) = <<>> /\ has_child_edge(e, A)
       \/ /\ fs = FsDeep(<< <<"/", "a">> >>, D)
          /\ globs_at(ignores, root_entry) = <<0>>
          /\ \E d \in Keys : d # root_entry /\ globs_at(ignores, d) = <<>>
                             /\ has_child_edge(d, A)

\* should_open answers false for the child on top of the work list.
top_is_dropped ==
    /\ pc = "walk" /\ unresolved_files # <<>>
    /\ ~should_open(ignores, top_file.key, top_file.path,
                    stat_at(key_to_entry(storage, top_file.key)[1].fd, top_file.path).file_type
                        = "Directory")

\* C28: a step that pops a child for which should_open is false, and whose
\* stat succeeds, takes the child off the work list and changes nothing else:
\* no descriptor, store entry, edge, active segment or deferred symlink is
\* added, and nothing is pushed.  Work items only ever name entries of stored
\* directories, so the entries of a dropped directory are never pushed.
C28_DroppedChildLeavesNoTrace ==
    /\ [][(top_is_dropped /\ pc' # "failed") =>
             /\ unresolved_files' = popped_files
             /\ UNCHANGED <<fds, root_entry, storage, structure, ignores,
                            unresolved_symlinks, rlimit, error>>]_vars
    /\ [](\A i \in 1..Len(unresolved_files) :
             /\ unresolved_files[i].key \in Keys
             /\ unresolved_files[i].path
                    \in DOMAIN fs.dirents[inode_of(unresolved_files[i].key)] \cup {DOT})

\* A build that ended after '*' dropped the directory d of the root: d is not
\* stored and has no edge.
C28_Witness ==
    /\ pc = "done"
    /\ \E lines \in Contents : fs = FsNested(lines) /\ lines = << <<"*">> >>
    /\ keys_of(5) = {}
    /\ ~has_child_edge(root_entry, D)
    /\ has_child_edge(root_entry, GITIGNORE)

\* The descriptors that the build opened: those of an inode of the tree.
opened_by_build == {fd \in DOMAIN fds : fds[fd] # 0}

\* C29: between any two steps, the descriptors the build has open are exactly
\* those held by the store entries, one per inode: a known inode is not
\* opened again and the duplicate made for a scan is closed however the scan
\* ends.
C29_OpenDescriptorsAreStoreEntries ==
    /\ opened_by_build = {storage.storage[key + 1].fd : key \in Keys}
    /\ \A fd1, fd2 \in opened_by_build : fds[fd1] = fds[fd2] => fd1 = fd2

\* The segments that compile_glob stored for the pattern.
compiled_segments == chain_of(arena, first_key)

RelativeExamples == {<<"x">>, <<"x", "/">>, <<"*", "*">>}

FixedExamples == {<<"/", "x">>, <<"a", "/", "x">>, <<"*", "*", "/", "x">>}

\* C30: every segment that compile_glob stores for a pattern has negated =
\* starts_negated and relative = false exactly when the parsed segment list
\* starts with a Separator or has more than two elements; 'x', 'x/' and '**'
\* are relative, '/x', 'a/x' and '**/x' are not.
C30_FixedPathHeuristic ==
    (compiled # None /\ compiled[1].ok) =>
        /\ \A i \in 1..Len(compiled_segments) :
              /\ compiled_segments[i].negated = ast[1].val.starts_negated
              /\ compiled_segments[i].relative
                    = ~(\/ ast[1].val.segments[1] = SegSeparator
                        \/ Len(ast[1].val.segments) > 2)
        /\ pattern \in RelativeExamples =>
              \A i \in 1..Len(compiled_segments) : compiled_segments[i].relative
        /\ pattern \in FixedExamples =>
              \A i \in 1..Len(compiled_segments) : ~compiled_segments[i].relative

\* 'x/' compiled: two parsed elements, one stored segment, relative.
C30_Witness ==
    /\ compiled # None /\ compiled[1].ok
    /\ pattern = <<"x", "/">>
    /\ Len(ast[1].val.segments) = 2
    /\ Len(compiled_segments) = 1
    /\ compiled_segments[1].relative /\ compiled_segments[1].trailing_slash

\* C31: for every pattern that compile_glob accepts, the last segment of
\* the chain has trailing_slash = false and every segment with a successor
\* has trailing_slash = true.
C31_LastSegmentHasNoTrailingSlash ==
    (compiled # None /\ compiled[1].ok) =>
        /\ ~compiled_segments[Len(compiled_segments)].trailing_slash
        /\ \A i \in 1..(Len(compiled_segments) - 1) : compiled_segments[i].trailing_slash

\* C31, amended: every segment with a successor has trailing_slash = true,
\* and the last segment has trailing_slash = true exactly when a separator
\* ends the pattern.
C31_TrailingSlashFollowsSeparator ==
    (compiled # None /\ compiled[1].ok) =>
        /\ compiled_segments[Len(compiled_segments)].trailing_slash
              = (ast[1].val.segments[Len(ast[1].val.segments)] = SegSeparator)
        /\ \A i \in 1..(Len(compiled_segments) - 1) : compiled_segments[i].trailing_slash

AXSlash == <<"a", "/", "x", "/">>

\* 'a/x/' compiled: two segments, a trailing slash on both.
C31_Witness ==
    /\ compiled # None /\ compiled[1].ok
    /\ pattern = AXSlash
    /\ Len(compiled_segments) = 2
    /\ compiled_segments[1].trailing_slash /\ compiled_segments[2].trailing_slash

\* The node indices that are asked about: those of the edges and one beyond.
Probed == 0..(MaxNode + 1)

\* The weights, in order, of the edges of the list that connect to node.
RECURSIVE weights_towards(_, _)
weights_towards(edges, node) ==
    IF edges = <<>> THEN <<>>
    ELSE (IF edges[1].connects_to = node THEN <<edges[1].weight>> ELSE <<>>)
             \o weights_towards(Tail(edges), node)

\* The step appended one edge u -> v to outgoing(u) and to incoming(v) and
\* left every other list as it was.
one_edge_appended(u, v) ==
    \E weight \in GraphWeights :
        /\ outgoing(structure', u)
              = Append(outgoing(structure, u), [weight |-> weight, connects_to |-> v])
        /\ incoming(structure', v)
              = Append(incoming(structure, v), [weight |-> weight, connects_to |-> u])
        /\ \A n \in Probed \ {u} : outgoing(structure', n) = outgoing(structure, n)
        /\ \A n \in Probed \ {v} : incoming(structure', n) = incoming(structure, n)

\* C32: after any sequence of add_edge calls, the edges that outgoing(u)
\* reports towards v are, weight for weight, those that incoming(v) reports
\* from u; each call appends one edge to one outgoing and one incoming list
\* and removes or reorders nothing; a graph without edges reports none, and so
\* does a node index beyond those of the edges.
C32_IncomingMirrorsOutgoing ==
    /\ [](\A u, v \in Probed :
            weights_towards(outgoing(structure, u), v)
                = weights_towards(incoming(structure, v), u))
    /\ [][\E u, v \in GraphNodes : one_edge_appended(u, v)]_vars
    /\ [](structure.weights = <<>> =>
            \A n \in Probed : outgoing(structure, n) = <<>> /\ incoming(structure, n) = <<>>)
    /\ [](outgoing(structure, MaxNode + 1) = <<>> /\ incoming(structure, MaxNode + 1) = <<>>)

\* Three edges: two from 0 to 2 with different weights and a loop at 2, node
\* 1 created by extend_to and never touched.
C32_Witness ==
    /\ pc = "graph"
    /\ outgoing(structure, 0) = << [weight |-> SymLink, connects_to |-> 2],
                                   [weight |-> Child(A), connects_to |-> 2] >>
    /\ outgoing(structure, 2) = << [weight |-> Child(A), connects_to |-> 2] >>
    /\ Len(incoming(structure, 2)) = 3
    /\ Len(structure.nodes) = 3
    /\ outgoing(structure, 1) = <<>> /\ incoming(structure, 1) = <<>>

\* The edges of the graph of one kind, each with its source.
edges_of_kind(kind) ==
    UNION {{[from |-> node, to |-> e.connects_to, weight |-> e.weight] :
                e \in {o \in out_edges(node) : o.weight.kind = kind}} : node \in Nodes}

\* C33: no SymLink edge exists while the work list of unresolved files is
\* non-empty, a step adds one only in the symlink loop with the work list
\* empty before and after, and no step of the symlink loop changes the Child
\* edges, so the first resolution already sees every Child edge of the final
\* graph.
C33_SymlinksResolvedAfterTheWalk ==
    /\ [](unresolved_files # <<>> => edges_of_kind("SymLink") = {})
    /\ [][edges_of_kind("SymLink")' # edges_of_kind("SymLink") =>
              /\ pc = "resolve"
              /\ unresolved_files = <<>>
              /\ unresolved_files' = <<>>]_vars
    /\ [][pc = "resolve" => edges_of_kind("Child")' = edges_of_kind("Child")]_vars

\* A finished build with a SymLink edge and a Child edge, found after more
\* than one work item was popped.
C33_Witness ==
    /\ pc = "done"
    /\ edges_of_kind("SymLink") # {}
    /\ Cardinality(edges_of_kind("Child")) > 1

\* The call of compile_glob of this step returned Err.
compile_failed == compiled = None /\ compiled' # None /\ ~compiled'[1].ok

\* C34: a compile_glob that returns Err leaves the storage and the
\* next-segment links of the arena as they were, whatever the reason of the
\* rejection, and a pattern compiled after it gets the key and the arena it
\* would have got had the rejected pattern never been submitted.
C34_FailedCompileLeavesArenaAlone ==
    [][compile_failed =>
          /\ arena'.storage = arena.storage
          /\ arena'.children = arena.children
          /\ compile_glob(arena', EarlierPattern) = compile_glob(arena, EarlierPattern)]_vars

\* A pattern with two components and no separator between them was rejected
\* by an arena that holds the segments of an earlier pattern.
C34_Witness ==
    /\ compiled # None
    /\ compiled[1] = Err("/ needed between sections")
    /\ arena = compile_glob(GlobArena_new, EarlierPattern).arena
    /\ arena.storage # <<>>

=============================================================================
